---- MODULE Spec2Model ----
(***************************************************************************)
(* BRC-20 consensus engine: BRC20Processor (src/src/services/processor.py) *)
(* and BRC20Validator (src/src/services/validator.py).                     *)
(*                                                                         *)
(* State: the three block-scoped dictionaries the caller threads through   *)
(* process_transaction (intermediate_balances, intermediate_total_minted,  *)
(* intermediate_deploys), the rows the processor stages in the database    *)
(* session (Deploy, Balance, BRC20Operation), and the committed tables the *)
(* validator's queries read.                                               *)
(***************************************************************************)
EXTENDS Integers, Sequences, FiniteSets, TLC

\* ------------------------------------------------------------------ bounds

MaxTx == 3
MaxBlocks == 2
MaxAmt == 2
AmountScale == 4
MARKETPLACE_FORK_HEIGHT == 901350

\* ------------------------------------------------------------------- data

None == "None"
Addrs == {"a1", "a2", "a3"}
StartHeight == MARKETPLACE_FORK_HEIGHT - 1

\* str.upper() on the tickers of the model
Upper(t) ==
    CASE t = "ordi" -> "ORDI"
      [] t = "pepe" -> "PEPE"
      [] OTHER -> t

\* Optional[...] values: <<>> is Python's None, <<v>> a present value
Some(v) == <<v>>
Absent == <<>>

\* ValidationResult(is_valid, error_code)
VR(ok, code) == [is_valid |-> ok, error_code |-> code]
Valid == VR(TRUE, None)

\* `if not validation_result:` -- the truth value of a ValidationResult object
Truthy(vr) == vr.is_valid

\* dict helpers
Has(d, k) == k \in DOMAIN d
Put(d, k, v) == [x \in (DOMAIN d) \cup {k} |-> IF x = k THEN v ELSE d[x]]
Merge(d, e) == [x \in (DOMAIN d) \cup (DOMAIN e) |-> IF x \in DOMAIN e THEN e[x] ELSE d[x]]
EmptyDict == [x \in {} |-> 0]

RECURSIVE SumSeq(_)
SumSeq(s) == IF s = <<>> THEN 0 ELSE Head(s) + SumSeq(Tail(s))

\* ------------------------------------------------------------- amounts
\* src.utils.amounts.  An amount is a decimal with a fixed number of
\* fractional digits; the model carries it as the integer value * AmountScale,
\* so the amount n of the model is the decimal n / AmountScale and the whole
\* numbers are the multiples of AmountScale.  The arithmetic is exact.

\* the whole number n as an amount
Whole(n) == n * AmountScale

is_valid_amount(a) == a \in Nat /\ a > 0
add_amounts(a, b) == a + b
subtract_amounts(a, b) == a - b
is_amount_greater_than(a, b) == a > b
is_amount_greater_equal(a, b) == a >= b
compare_amounts(a, b) == IF a < b THEN -1 ELSE IF a > b THEN 1 ELSE 0

\* ------------------------------------------------------------ transactions
\* A transaction as the BlockSource yields it.  An input is
\* [coinbase, addr, sig]: addr is what the UTXO resolver returns for its
\* (txid, vout) (None when unresolved), sig tells whether its signature
\* carries SIGHASH_SINGLE|ANYONECANPAY.  An output is [opret, payload, addr]:
\* opret is scriptPubKey.type == "nulldata", payload the OP_RETURN push,
\* addr the address the scriptPubKey yields (None when it yields none).

In(a, sg) == [coinbase |-> FALSE, addr |-> a, sig |-> sg]
Coinbase == [coinbase |-> TRUE, addr |-> None, sig |-> FALSE]

NoPayload == [kind |-> "none", op |-> None, tick |-> None, amt |-> 0, m |-> 0, l |-> Absent]
DeployOp(t, m, l) == [kind |-> "ok", op |-> "deploy", tick |-> t, amt |-> 0, m |-> m, l |-> l]
MintOp(t, a) == [kind |-> "ok", op |-> "mint", tick |-> t, amt |-> a, m |-> 0, l |-> Absent]
TransferOp(t, a) == [kind |-> "ok", op |-> "transfer", tick |-> t, amt |-> a, m |-> 0, l |-> Absent]
BadPayload(code) == [kind |-> code, op |-> None, tick |-> None, amt |-> 0, m |-> 0, l |-> Absent]

\* an output: opret tells an OP_RETURN (scriptPubKey.type "nulldata" or a hex
\* that starts with 6a); addresses and address are the scriptPubKey fields of
\* these names, script the address extract_address_from_script derives from
\* the hex of a standard output, None when it derives none
Out(opret, p, addresses, address, script) == [opret |-> opret, payload |-> p, addresses |-> addresses, address |-> address, script |-> script]
OpRet(p) == Out(TRUE, p, <<>>, None, None)
Std(a) == Out(FALSE, NoPayload, IF a = None THEN <<>> ELSE <<a>>, None, None)

Tx(vin, vout, ts) == [vin |-> vin, vout |-> vout, block_timestamp |-> ts]

\* --------------------------------------------------------------- variables

VARIABLES
    intermediate_balances,      \* dict (address, ticker) -> balance, per block
    intermediate_total_minted,  \* dict ticker -> cumulative minted, per block
    intermediate_deploys,       \* dict ticker -> Deploy, per block
    session_balances,           \* Balance rows staged in the session this block
    session_deploys,            \* Deploy rows staged in the session this block
    session_ops,                \* BRC20Operation rows staged this block, in order
    db_balances,                \* committed balances table
    db_deploys,                 \* committed deploys table
    db_ops,                     \* committed brc20_operations table, in order
    store_scan_upper_first,     \* whether a scan of balances meets uppercase rows first
    block_height,               \* height of the block being processed
    tx_index,                   \* index of the next transaction in the block
    nTx,                        \* process_transaction calls made so far
    tx,                         \* the transaction of the last call
    result,                     \* what the last call returned (or raised)
    call,                       \* the arguments of the last direct call of a method
    ret                         \* what that call returned

\* the variables of the block loop
loopvars == <<intermediate_balances, intermediate_total_minted, intermediate_deploys,
              session_balances, session_deploys, session_ops,
              db_balances, db_deploys, db_ops, store_scan_upper_first,
              block_height, tx_index, nTx, tx, result>>

vars == <<loopvars, call, ret>>

\* ------------------------------------------------------------------ parser
\* BRC20Parser (src/services/parser.py)

is_op_return(out) == out.opret

parse_brc20_operation(p) ==
    IF p.kind = "ok"
    THEN [success |-> TRUE, data |-> p, error_code |-> None]
    ELSE [success |-> FALSE, data |-> NoPayload, error_code |-> p.kind]

OpReturnIndexes(vout) == {i \in 1..Len(vout) : is_op_return(vout[i])}

RECURSIVE SortedSeq(_)
SortedSeq(S) ==
    IF S = {} THEN <<>>
    ELSE LET lo == CHOOSE x \in S : \A y \in S : x <= y
         IN <<lo>> \o SortedSeq(S \ {lo})

\* (payload, vout_index) of the first OP_RETURN; vout_index counts from 0
extract_op_return_data(t) ==
    LET idx == OpReturnIndexes(t.vout)
    IN IF idx = {} THEN [found |-> FALSE, hex_data |-> NoPayload, vout_index |-> 0]
       ELSE LET i == CHOOSE x \in idx : \A y \in idx : x <= y
            IN [found |-> TRUE, hex_data |-> t.vout[i].payload, vout_index |-> i - 1]

\* the OP_RETURNs that parse as a valid transfer, in vout order
extract_multi_transfer_op_returns(t) ==
    LET idx == {i \in OpReturnIndexes(t.vout) :
                  /\ parse_brc20_operation(t.vout[i].payload).success
                  /\ t.vout[i].payload.op = "transfer"}
        order == SortedSeq(idx)
    IN [k \in 1..Len(order) |->
          [hex_data |-> t.vout[order[k]].payload, vout_index |-> order[k] - 1]]

\* structural rules of a multi-transfer: one ticker, no other BRC-20 payload
\* among the OP_RETURNs, every destination slot exists and is a standard output
validate_multi_transfer_structure(t, transfer_ops) ==
    LET idx == OpReturnIndexes(t.vout)
    IN IF \E i \in idx : ~(t.vout[i].payload.kind = "ok" /\ t.vout[i].payload.op = "transfer")
       THEN VR(FALSE, "INVALID_OPERATION")
       ELSE IF \E j, k \in 1..Len(transfer_ops) :
                 Upper(transfer_ops[j].hex_data.tick) # Upper(transfer_ops[k].hex_data.tick)
       THEN VR(FALSE, "INVALID_OPERATION")
       ELSE IF \E k \in 1..Len(transfer_ops) :
                 LET d == transfer_ops[k].vout_index + 2
                 IN d > Len(t.vout) \/ is_op_return(t.vout[d])
       THEN VR(FALSE, "NO_STANDARD_OUTPUT")
       ELSE Valid

\* meta rules: a single ticker, and the total of the amounts
validate_multi_transfer_meta_rules(parsed_ops) ==
    LET ticker == parsed_ops[1].parse_result.data.tick
        total == SumSeq([k \in 1..Len(parsed_ops) |-> parsed_ops[k].parse_result.data.amt])
    IN IF \E k \in 1..Len(parsed_ops) :
            \/ ~parsed_ops[k].parse_result.success
            \/ Upper(parsed_ops[k].parse_result.data.tick) # Upper(ticker)
       THEN [validation |-> VR(FALSE, "INVALID_OPERATION"), ticker |-> None, total_amount |-> 0]
       ELSE [validation |-> Valid, ticker |-> ticker, total_amount |-> total]

\* --------------------------------------------------------------- validator
\* BRC20Validator.  An Optional[Dict] argument is Absent or Some(dict); a query
\* of the database session reads the committed tables.  ilike is equality of
\* the uppercase forms.

ILike(column, value) == Upper(column) = Upper(value)

\* self.db.query(Deploy).filter(Deploy.ticker.ilike(ticker)).first()
QueryDeploy(ticker) ==
    LET rows == {d \in db_deploys : ILike(d.ticker, ticker)}
    IN IF rows = {} THEN Absent ELSE Some(CHOOSE d \in rows : TRUE)

\* self.db.query(Balance).filter(address ==, ticker.ilike).first(): when rows
\* in several letter cases match, the one the Store's scan meets first
QueryBalance(address, ticker) ==
    LET keys == {k \in DOMAIN db_balances : k[1] = address /\ ILike(k[2], ticker)}
        upper == {k \in keys : k[2] = Upper(k[2])}
        first == IF store_scan_upper_first /\ upper # {} THEN upper
                 ELSE IF ~store_scan_upper_first /\ keys \ upper # {} THEN keys \ upper
                 ELSE keys
    IN IF keys = {} THEN Absent ELSE Some(db_balances[CHOOSE k \in first : TRUE])

\* cast(column, BigInteger) on a NUMERIC(38,8) value that is not negative:
\* PostgreSQL rounds it to the nearest whole number, a half upwards
CastBigInteger(a) ==
    ((2 * a + AmountScale) \div (2 * AmountScale)) * AmountScale

\* func.sum(cast(BRC20Operation.amount, BigInteger)) over the valid mint rows
\* of brc20_operations for the ticker
RECURSIVE SumValidMints(_, _)
SumValidMints(ops, ticker) ==
    IF ops = <<>> THEN 0
    ELSE (IF /\ Head(ops).operation = "mint"
             /\ Head(ops).is_valid
             /\ Head(ops).ticker # None
             /\ ILike(Head(ops).ticker, ticker)
             /\ Head(ops).amount # Absent
          THEN CastBigInteger(Head(ops).amount[1]) ELSE 0)
         + SumValidMints(Tail(ops), ticker)

get_total_minted(ticker, itm) ==
    LET normalized_ticker == Upper(ticker)
    IN IF itm # Absent /\ Has(itm[1], normalized_ticker)
       THEN itm[1][normalized_ticker]
       ELSE SumValidMints(db_ops, normalized_ticker)

get_balance(address, ticker, ib) ==
    LET key == <<address, Upper(ticker)>>
    IN IF ib # Absent /\ Has(ib[1], key)
       THEN ib[1][key]
       ELSE LET row == QueryBalance(address, Upper(ticker))
            IN IF row # Absent THEN row[1] ELSE 0

get_deploy_record(ticker, idp) ==
    LET normalized_ticker == Upper(ticker)
    IN IF idp # Absent /\ Has(idp[1], normalized_ticker)
       THEN Some(idp[1][normalized_ticker])
       ELSE QueryDeploy(normalized_ticker)

\* variant of validate_deploy that consults the overlay only, never the Store
validate_deploy_overlay_only(operation, idp) ==
    LET ticker == Upper(operation.tick)
    IN IF idp # Absent /\ Has(idp[1], ticker)
       THEN VR(FALSE, "TICKER_ALREADY_EXISTS")
       ELSE IF ~is_valid_amount(operation.m)
       THEN VR(FALSE, "INVALID_AMOUNT")
       ELSE IF operation.l # Absent /\ ~is_valid_amount(operation.l[1])
       THEN VR(FALSE, "INVALID_AMOUNT")
       ELSE Valid

\* variant of validate_deploy that consults the Store only, never the overlay
validate_deploy_store_only(operation, idp) ==
    LET ticker == Upper(operation.tick)
    IN IF QueryDeploy(ticker) # Absent
       THEN VR(FALSE, "TICKER_ALREADY_EXISTS")
       ELSE IF ~is_valid_amount(operation.m)
       THEN VR(FALSE, "INVALID_AMOUNT")
       ELSE IF operation.l # Absent /\ ~is_valid_amount(operation.l[1])
       THEN VR(FALSE, "INVALID_AMOUNT")
       ELSE Valid

validate_deploy(operation, idp) ==
    LET ticker == Upper(operation.tick)
    IN IF idp # Absent /\ Has(idp[1], ticker)
       THEN VR(FALSE, "TICKER_ALREADY_EXISTS")
       ELSE IF QueryDeploy(ticker) # Absent
       THEN VR(FALSE, "TICKER_ALREADY_EXISTS")
       ELSE IF ~is_valid_amount(operation.m)
       THEN VR(FALSE, "INVALID_AMOUNT")
       ELSE IF operation.l # Absent /\ ~is_valid_amount(operation.l[1])
       THEN VR(FALSE, "INVALID_AMOUNT")
       ELSE Valid

\* variant of validate_mint_overflow that refuses a mint reaching max_supply
validate_mint_overflow_at_cap(ticker, mint_amount, deploy, itm) ==
    LET current_total_minted == get_total_minted(ticker, itm)
        proposed_total_after_mint == add_amounts(current_total_minted, mint_amount)
    IN IF is_amount_greater_equal(proposed_total_after_mint, deploy.max_supply)
       THEN VR(FALSE, "EXCEEDS_MAX_SUPPLY")
       ELSE Valid

\* variant of validate_transfer that applies the per-operation limit of mints
validate_transfer_with_limit(operation, sender_balance, deploy) ==
    IF deploy = Absent
    THEN VR(FALSE, "TICKER_NOT_DEPLOYED")
    ELSE IF ~is_valid_amount(operation.amt)
    THEN VR(FALSE, "INVALID_AMOUNT")
    ELSE IF /\ deploy[1].limit_per_op # Absent
            /\ is_amount_greater_than(operation.amt, deploy[1].limit_per_op[1])
    THEN VR(FALSE, "EXCEEDS_MINT_LIMIT")
    ELSE IF ~is_amount_greater_equal(sender_balance, operation.amt)
    THEN VR(FALSE, "INSUFFICIENT_BALANCE")
    ELSE Valid

\* variant of validate_transfer without the balance comparison
validate_transfer_unchecked(operation, sender_balance, deploy) ==
    IF deploy = Absent
    THEN VR(FALSE, "TICKER_NOT_DEPLOYED")
    ELSE IF ~is_valid_amount(operation.amt)
    THEN VR(FALSE, "INVALID_AMOUNT")
    ELSE Valid

validate_mint_overflow(ticker, mint_amount, deploy, itm) ==
    LET current_total_minted == get_total_minted(ticker, itm)
        proposed_total_after_mint == add_amounts(current_total_minted, mint_amount)
    IN IF is_amount_greater_than(proposed_total_after_mint, deploy.max_supply)
       THEN VR(FALSE, "EXCEEDS_MAX_SUPPLY")
       ELSE Valid

\* variant of validate_mint that refuses a mint of exactly limit_per_op
validate_mint_limit_inclusive(operation, deploy, itm) ==
    IF deploy = Absent
    THEN VR(FALSE, "TICKER_NOT_DEPLOYED")
    ELSE IF ~is_valid_amount(operation.amt)
    THEN VR(FALSE, "INVALID_AMOUNT")
    ELSE IF /\ deploy[1].limit_per_op # Absent
            /\ is_amount_greater_equal(operation.amt, deploy[1].limit_per_op[1])
    THEN VR(FALSE, "EXCEEDS_MINT_LIMIT")
    ELSE validate_mint_overflow(operation.tick, operation.amt, deploy[1], itm)

validate_mint(operation, deploy, itm) ==
    IF deploy = Absent
    THEN VR(FALSE, "TICKER_NOT_DEPLOYED")
    ELSE IF ~is_valid_amount(operation.amt)
    THEN VR(FALSE, "INVALID_AMOUNT")
    ELSE IF /\ deploy[1].limit_per_op # Absent
            /\ is_amount_greater_than(operation.amt, deploy[1].limit_per_op[1])
    THEN VR(FALSE, "EXCEEDS_MINT_LIMIT")
    ELSE validate_mint_overflow(operation.tick, operation.amt, deploy[1], itm)

validate_transfer(operation, sender_balance, deploy) ==
    IF deploy = Absent
    THEN VR(FALSE, "TICKER_NOT_DEPLOYED")
    ELSE IF ~is_valid_amount(operation.amt)
    THEN VR(FALSE, "INVALID_AMOUNT")
    ELSE IF ~is_amount_greater_equal(sender_balance, operation.amt)
    THEN VR(FALSE, "INSUFFICIENT_BALANCE")
    ELSE Valid

\* variant of validate_output_addresses that asks a standard output of a
\* deploy too
validate_output_addresses_strict(tx_outputs, operation_type) ==
    IF tx_outputs = <<>>
    THEN VR(FALSE, "NO_STANDARD_OUTPUT")
    ELSE IF ~(\E i \in 1..Len(tx_outputs) : ~is_op_return(tx_outputs[i]))
    THEN VR(FALSE, "NO_STANDARD_OUTPUT")
    ELSE Valid

validate_output_addresses(tx_outputs, operation_type) ==
    IF tx_outputs = <<>>
    THEN VR(FALSE, "NO_STANDARD_OUTPUT")
    ELSE IF operation_type = "deploy"
    THEN Valid
    ELSE IF ~(\E i \in 1..Len(tx_outputs) : ~is_op_return(tx_outputs[i]))
    THEN VR(FALSE, "NO_STANDARD_OUTPUT")
    ELSE Valid

\* variant of ScriptPubKeyAddress that reads scriptPubKey.address before
\* scriptPubKey.addresses
ScriptPubKeyAddress_address_first(script_pub_key) ==
    IF script_pub_key.address # None THEN script_pub_key.address
    ELSE IF Len(script_pub_key.addresses) > 0 THEN script_pub_key.addresses[1]
    ELSE script_pub_key.script

\* the address of a standard output: addresses[0], else address, else the
\* address derived from the script
ScriptPubKeyAddress(script_pub_key) ==
    IF Len(script_pub_key.addresses) > 0 THEN script_pub_key.addresses[1]
    ELSE IF script_pub_key.address # None THEN script_pub_key.address
    ELSE script_pub_key.script

get_output_after_op_return_address(tx_outputs) ==
    LET idx == OpReturnIndexes(tx_outputs)
    IN IF idx = {} THEN None
       ELSE LET op_return_index == CHOOSE x \in idx : \A y \in idx : x <= y
            IN IF op_return_index + 1 > Len(tx_outputs) THEN None
               ELSE IF is_op_return(tx_outputs[op_return_index + 1]) THEN None
               ELSE ScriptPubKeyAddress(tx_outputs[op_return_index + 1])

\* variant of validate_complete_operation that consults the rules of a mint
\* before it looks for the recipient
validate_complete_operation_rules_first(operation, tx_outputs, sender_address, ib, itm, idp) ==
    LET op_type == operation.op
        ticker == operation.tick
        output_validation == validate_output_addresses(tx_outputs, op_type)
        deploy == get_deploy_record(ticker, idp)
        rules == IF op_type = "deploy" THEN validate_deploy(operation, idp)
                 ELSE IF op_type = "mint" THEN validate_mint(operation, deploy, itm)
                 ELSE IF op_type = "transfer"
                 THEN IF sender_address = None
                      THEN VR(FALSE, "NO_STANDARD_OUTPUT")
                      ELSE validate_transfer(operation,
                                             get_balance(sender_address, ticker, ib), deploy)
                 ELSE VR(FALSE, "INVALID_OPERATION")
    IN IF ~output_validation.is_valid
       THEN output_validation
       ELSE IF op_type = "mint" /\ ~rules.is_valid
       THEN rules
       ELSE IF /\ op_type \in {"mint", "transfer"}
               /\ get_output_after_op_return_address(tx_outputs) = None
       THEN VR(FALSE, "NO_STANDARD_OUTPUT")
       ELSE rules

validate_complete_operation(operation, tx_outputs, sender_address, ib, itm, idp) ==
    LET op_type == operation.op
        ticker == operation.tick
        output_validation == validate_output_addresses(tx_outputs, op_type)
        deploy == get_deploy_record(ticker, idp)
    IN IF ~output_validation.is_valid
       THEN output_validation
       ELSE IF /\ op_type \in {"mint", "transfer"}
               /\ get_output_after_op_return_address(tx_outputs) = None
       THEN VR(FALSE, "NO_STANDARD_OUTPUT")
       ELSE IF op_type = "deploy"
       THEN validate_deploy(operation, idp)
       ELSE IF op_type = "mint"
       THEN validate_mint(operation, deploy, itm)
       ELSE IF op_type = "transfer"
       THEN IF sender_address = None
            THEN VR(FALSE, "NO_STANDARD_OUTPUT")
            ELSE validate_transfer(operation,
                                   get_balance(sender_address, ticker, ib), deploy)
       ELSE VR(FALSE, "INVALID_OPERATION")

\* --------------------------------------------------------------- processor
\* BRC20Processor.  The state a call works on is a record
\*   [ib, itm, idp : the three intermediate dictionaries,
\*    sb, sd, so   : the Balance, Deploy and BRC20Operation rows staged in the session,
\*    exc          : None, or the exception that is propagating].

Cur == [ib |-> intermediate_balances, itm |-> intermediate_total_minted,
        idp |-> intermediate_deploys, sb |-> session_balances,
        sd |-> session_deploys, so |-> session_ops, exc |-> None]

Raise(s, e) == [s EXCEPT !.exc = e]

\* tx_info: the transaction with the keys process_transaction adds to it
TxInfo(t, txid, height, index, vout_index) ==
    [vin |-> t.vin, vout |-> t.vout, block_timestamp |-> t.block_timestamp,
     txid |-> txid, block_height |-> height, tx_index |-> index,
     vout_index |-> vout_index]

\* op_data dictionaries: .get("op", "invalid"), .get("tick"), .get("amt")
OpData(op, tick, amt) == [op |-> op, tick |-> tick, amt |-> amt]
ParsedOpData(data) ==
    OpData(data.op, data.tick, IF data.op = "deploy" THEN Absent ELSE Some(data.amt))

_convert_block_timestamp_ok(block_timestamp) == block_timestamp > 0

get_first_input_address(tx_info) ==
    IF tx_info.vin = <<>> THEN None
    ELSE IF tx_info.vin[1].coinbase THEN None
    ELSE tx_info.vin[1].addr

resolve_transfer_addresses(tx_info) ==
    [sender |-> get_first_input_address(tx_info),
     recipient |-> get_output_after_op_return_address(tx_info.vout)]

\* variant of log_operation that puts the entry in front of the session's entries
log_operation_prepending(s, op_data, val_res, tx_info, is_mkt, is_multi_transfer, multi_transfer_step) ==
    IF ~_convert_block_timestamp_ok(tx_info.block_timestamp)
    THEN Raise(s, "ValueError")
    ELSE LET op_type == op_data.op
             addrs == resolve_transfer_addresses(tx_info)
             from_addr == IF op_type = "deploy" THEN get_first_input_address(tx_info)
                          ELSE IF op_type = "transfer" THEN addrs.sender
                          ELSE None
             to_addr == IF op_type = "mint"
                        THEN get_output_after_op_return_address(tx_info.vout)
                        ELSE IF op_type = "transfer" THEN addrs.recipient
                        ELSE None
             op == [txid |-> tx_info.txid,
                    vout_index |-> tx_info.vout_index,
                    operation |-> op_type,
                    ticker |-> op_data.tick,
                    amount |-> op_data.amt,
                    from_address |-> from_addr,
                    to_address |-> to_addr,
                    block_height |-> tx_info.block_height,
                    tx_index |-> tx_info.tx_index,
                    is_valid |-> val_res.is_valid,
                    error_code |-> val_res.error_code,
                    is_marketplace |-> is_mkt,
                    is_multi_transfer |-> is_multi_transfer,
                    multi_transfer_step |-> multi_transfer_step]
         IN [s EXCEPT !.so = <<op>> \o @]

log_operation(s, op_data, val_res, tx_info, is_mkt, is_multi_transfer, multi_transfer_step) ==
    IF ~_convert_block_timestamp_ok(tx_info.block_timestamp)
    THEN Raise(s, "ValueError")
    ELSE LET op_type == op_data.op
             addrs == resolve_transfer_addresses(tx_info)
             from_addr == IF op_type = "deploy" THEN get_first_input_address(tx_info)
                          ELSE IF op_type = "transfer" THEN addrs.sender
                          ELSE None
             to_addr == IF op_type = "mint"
                        THEN get_output_after_op_return_address(tx_info.vout)
                        ELSE IF op_type = "transfer" THEN addrs.recipient
                        ELSE None
             op == [txid |-> tx_info.txid,
                    vout_index |-> tx_info.vout_index,
                    operation |-> op_type,
                    ticker |-> op_data.tick,
                    amount |-> op_data.amt,
                    from_address |-> from_addr,
                    to_address |-> to_addr,
                    block_height |-> tx_info.block_height,
                    tx_index |-> tx_info.tx_index,
                    is_valid |-> val_res.is_valid,
                    error_code |-> val_res.error_code,
                    is_marketplace |-> is_mkt,
                    is_multi_transfer |-> is_multi_transfer,
                    multi_transfer_step |-> multi_transfer_step]
         IN [s EXCEPT !.so = Append(@, op)]

\* amount_delta is the string "-<amount>" (negative = TRUE) or "<amount>"
\* update_balance once start_balance_str is read
update_balance_from(s, key, negative, amount, start_balance) ==
    IF negative /\ compare_amounts(start_balance, amount) < 0
    THEN Raise(s, "BRC20Exception")
    ELSE LET new_balance == IF negative
                            THEN subtract_amounts(start_balance, amount)
                            ELSE add_amounts(start_balance, amount)
         IN [s EXCEPT !.sb = Put(@, key, new_balance),
                      !.ib = Put(@, key, new_balance)]

update_balance(s, address, ticker, negative, amount) ==
    update_balance_from(s, <<address, Upper(ticker)>>, negative, amount,
                        get_balance(address, Upper(ticker), Some(s.ib)))

process_deploy(s, operation, tx_info) ==
    IF ~_convert_block_timestamp_ok(tx_info.block_timestamp)
    THEN Raise(s, "ValueError")
    ELSE LET deploy == [ticker |-> Upper(operation.tick),
                        max_supply |-> operation.m,
                        limit_per_op |-> operation.l,
                        deploy_txid |-> tx_info.txid,
                        deploy_height |-> tx_info.block_height,
                        deployer_address |-> get_first_input_address(tx_info)]
         IN [s EXCEPT !.sd = @ \cup {deploy},
                      !.idp = Put(@, deploy.ticker, deploy)]

process_mint(s, operation, tx_info) ==
    LET ticker == Upper(operation.tick)
        amount == operation.amt
        recipient == get_output_after_op_return_address(tx_info.vout)
        deploy == get_deploy_record(ticker, Some(s.idp))
        validation_result == validate_mint(operation, deploy, Some(s.itm))
    IN IF ~validation_result.is_valid THEN s
       ELSE LET current_minted == get_total_minted(ticker, Some(s.itm))
                s1 == [s EXCEPT !.itm = Put(@, ticker, add_amounts(current_minted, amount))]
            IN IF recipient # None
               THEN update_balance(s1, recipient, ticker, FALSE, amount)
               ELSE s1

\* signature_hex and is_sighash_single_anyonecanpay(signature_hex)
HasMarketplaceSig(vin) == vin.sig

\* { get_input_address(vin.txid, vin.vout) for vin in inputs if "txid" in vin }, None discarded
InputAddresses(inputs) ==
    {inputs[i].addr : i \in {j \in 1..Len(inputs) : ~inputs[j].coinbase}} \ {None}

\* variant of the early template that looks for the signature on inputs[0] only
_validate_early_template_first_input(tx_info) ==
    LET inputs == tx_info.vin
    IN IF Len(inputs) < 3
       THEN VR(FALSE, "INVALID_MARKETPLACE_TRANSACTION")
       ELSE IF ~HasMarketplaceSig(inputs[1])
       THEN VR(FALSE, "INVALID_SIGHASH_TYPE")
       ELSE IF Cardinality(InputAddresses(inputs)) < 3
       THEN VR(FALSE, "INVALID_MARKETPLACE_TRANSACTION")
       ELSE Valid

_validate_early_marketplace_template(tx_info) ==
    LET inputs == tx_info.vin
    IN IF Len(inputs) < 3
       THEN VR(FALSE, "INVALID_MARKETPLACE_TRANSACTION")
       ELSE IF ~(\E i \in 1..Len(inputs) : HasMarketplaceSig(inputs[i]))
       THEN VR(FALSE, "INVALID_SIGHASH_TYPE")
       ELSE IF Cardinality(InputAddresses(inputs)) < 3
       THEN VR(FALSE, "INVALID_MARKETPLACE_TRANSACTION")
       ELSE Valid

\* variant of the new template without the same-address requirement on the
\* first two inputs
_validate_new_template_any_address(tx_info) ==
    LET inputs == tx_info.vin
    IN IF Len(inputs) < 3
       THEN VR(FALSE, "INVALID_MARKETPLACE_TRANSACTION")
       ELSE IF ~(HasMarketplaceSig(inputs[1]) /\ HasMarketplaceSig(inputs[2]))
       THEN VR(FALSE, "INVALID_SIGHASH_TYPE")
       ELSE IF Cardinality(InputAddresses(inputs)) < 3
       THEN VR(FALSE, "INVALID_MARKETPLACE_TRANSACTION")
       ELSE Valid

\* inputs[0]["txid"] of a coinbase input is a KeyError
_validate_new_marketplace_template(tx_info) ==
    LET inputs == tx_info.vin
    IN IF Len(inputs) < 3
       THEN VR(FALSE, "INVALID_MARKETPLACE_TRANSACTION")
       ELSE IF inputs[1].coinbase \/ inputs[2].coinbase
       THEN VR(FALSE, "KeyError")
       ELSE IF inputs[1].addr = None \/ inputs[1].addr # inputs[2].addr
       THEN VR(FALSE, "INVALID_MARKETPLACE_TRANSACTION")
       ELSE IF ~(HasMarketplaceSig(inputs[1]) /\ HasMarketplaceSig(inputs[2]))
       THEN VR(FALSE, "INVALID_SIGHASH_TYPE")
       ELSE IF Cardinality(InputAddresses(inputs)) < 3
       THEN VR(FALSE, "INVALID_MARKETPLACE_TRANSACTION")
       ELSE Valid

\* variant of validate_marketplace_transfer that applies the early template
\* at every height
validate_marketplace_transfer_early_only(tx_info, height) ==
    _validate_early_marketplace_template(tx_info)

validate_marketplace_transfer(tx_info, height) ==
    IF height < MARKETPLACE_FORK_HEIGHT
    THEN _validate_early_marketplace_template(tx_info)
    ELSE _validate_new_marketplace_template(tx_info)

_has_marketplace_sighash(tx_info) ==
    \E i \in 1..Len(tx_info.vin) : HasMarketplaceSig(tx_info.vin[i])

\* variant of classify_transfer_type that takes the sighash alone for a
\* marketplace transfer, without applying the template
classify_transfer_type_sighash_only(tx_info, height) ==
    IF ~_has_marketplace_sighash(tx_info) THEN "SIMPLE" ELSE "MARKETPLACE"

\* "SIMPLE", "MARKETPLACE", "INVALID_MARKETPLACE", or "KeyError" when the template raises
classify_transfer_type(tx_info, height) ==
    IF ~_has_marketplace_sighash(tx_info) THEN "SIMPLE"
    ELSE LET marketplace_validation == validate_marketplace_transfer(tx_info, height)
         IN IF marketplace_validation.is_valid THEN "MARKETPLACE"
            ELSE IF marketplace_validation.error_code = "KeyError" THEN "KeyError"
            ELSE "INVALID_MARKETPLACE"

\* variant of transfer_in that never credits the recipient
transfer_in_no_credit(s1, recipient_address, operation) == s1

\* the second update_balance of process_transfer, reached when the first,
\* which left the state s1, did not raise
transfer_in(s1, recipient_address, operation) ==
    IF s1.exc # None THEN s1
    ELSE update_balance(s1, recipient_address, operation.tick, FALSE, operation.amt)

\* variant of process_transfer that moves the balance before it looks at the
\* transfer type
process_transfer_moving_first(s, operation, tx_info, validation_result, height) ==
    LET transfer_type == classify_transfer_type(tx_info, height)
        sender_address == get_first_input_address(tx_info)
        recipient_address == get_output_after_op_return_address(tx_info.vout)
        moved == transfer_in(update_balance(s, sender_address, operation.tick,
                                            TRUE, operation.amt),
                             recipient_address, operation)
    IN IF transfer_type = "KeyError"
       THEN [s |-> Raise(s, "KeyError"), vr |-> validation_result]
       ELSE IF ~validation_result.is_valid
       THEN [s |-> s, vr |-> validation_result]
       ELSE IF sender_address = None \/ recipient_address = None
       THEN [s |-> s, vr |-> VR(FALSE, "INVALID_ADDRESS")]
       ELSE IF transfer_type = "INVALID_MARKETPLACE"
       THEN [s |-> moved, vr |-> VR(FALSE, "INVALID_MARKETPLACE_TRANSACTION")]
       ELSE [s |-> moved, vr |-> validation_result]

\* returns [s, vr]: the state and the ValidationResult
process_transfer(s, operation, tx_info, validation_result, height) ==
    LET transfer_type == classify_transfer_type(tx_info, height)
        sender_address == get_first_input_address(tx_info)
        recipient_address == get_output_after_op_return_address(tx_info.vout)
    IN IF transfer_type = "KeyError"
       THEN [s |-> Raise(s, "KeyError"), vr |-> validation_result]
       ELSE IF transfer_type = "INVALID_MARKETPLACE"
       THEN [s |-> s, vr |-> VR(FALSE, "INVALID_MARKETPLACE_TRANSACTION")]
       ELSE IF ~validation_result.is_valid
       THEN [s |-> s, vr |-> validation_result]
       ELSE IF sender_address # None /\ recipient_address # None
       THEN [s |-> transfer_in(update_balance(s, sender_address, operation.tick,
                                              TRUE, operation.amt),
                               recipient_address, operation),
             vr |-> validation_result]
       ELSE [s |-> s, vr |-> VR(FALSE, "INVALID_ADDRESS")]

\* ProcessingResult; raised names an exception that escaped process_transaction
Result(raised, found, ok, code, op_type, ticker, amount) ==
    [raised |-> raised, operation_found |-> found, is_valid |-> ok,
     error_code |-> code, operation_type |-> op_type, ticker |-> ticker,
     amount |-> amount]

EmptyResult == Result(None, FALSE, FALSE, None, None, None, Absent)

\* _create_processing_result(txid, validation_result, is_multi, _op_data=None):
\* called with passes_op_data_keyword = TRUE when the call site passes op_data=...
_create_processing_result(validation_result, passes_op_data_keyword) ==
    IF passes_op_data_keyword
    THEN [EmptyResult EXCEPT !.raised = "TypeError"]
    ELSE Result(None, TRUE, validation_result.is_valid, validation_result.error_code,
                None, None, Absent)

\* the simulation loop of process_multi_transfer, from step i on:
\* [sim, all_steps_valid, final_validation_result]
RECURSIVE SimulateSteps(_, _, _, _, _, _, _)
SimulateSteps(parsed_ops, i, sim, sender_address, ticker, deploy_record, vout) ==
    IF i > Len(parsed_ops)
    THEN [sim |-> sim, all_steps_valid |-> TRUE, final |-> Valid]
    ELSE LET parse_result == parsed_ops[i].parse_result
             vout_index == parsed_ops[i].vout_index
             op_data == parse_result.data
             current_sender_balance == get_balance(sender_address, op_data.tick, Some(sim))
             step_validation == validate_transfer(op_data, current_sender_balance, deploy_record)
             recipient_address ==
                 get_output_after_op_return_address(SubSeq(vout, vout_index + 1, Len(vout)))
             sim1 == Put(sim, <<sender_address, ticker>>,
                         subtract_amounts(current_sender_balance, op_data.amt))
             current_recipient_balance == get_balance(recipient_address, ticker, Some(sim1))
             sim2 == Put(sim1, <<recipient_address, ticker>>,
                         add_amounts(current_recipient_balance, op_data.amt))
         IN IF ~parse_result.success
            THEN [sim |-> sim, all_steps_valid |-> FALSE,
                  final |-> VR(FALSE, parse_result.error_code)]
            ELSE IF ~step_validation.is_valid
            THEN [sim |-> sim, all_steps_valid |-> FALSE, final |-> step_validation]
            ELSE SimulateSteps(parsed_ops, i + 1, sim2, sender_address, ticker,
                               deploy_record, vout)

\* variant of the logging loop that logs one entry for the whole transaction
LogFirstStepOnly(s, transfer_ops, i, final_validation_result, tx_info) ==
    IF i > Len(transfer_ops) \/ s.exc # None THEN s
    ELSE log_operation(s, ParsedOpData(parse_brc20_operation(transfer_ops[i].hex_data).data),
                       final_validation_result,
                       [tx_info EXCEPT !.vout_index = transfer_ops[i].vout_index],
                       FALSE, TRUE, Some(i - 1))

\* the logging loop of process_multi_transfer, from step i on
RECURSIVE LogSteps(_, _, _, _, _)
LogSteps(s, transfer_ops, i, final_validation_result, tx_info) ==
    IF i > Len(transfer_ops) \/ s.exc # None THEN s
    ELSE LET op_data == parse_brc20_operation(transfer_ops[i].hex_data).data
             tx_info_step == [tx_info EXCEPT !.vout_index = transfer_ops[i].vout_index]
         IN LogSteps(log_operation(s, ParsedOpData(op_data), final_validation_result,
                                   tx_info_step, FALSE, TRUE, Some(i - 1)),
                     transfer_ops, i + 1, final_validation_result, tx_info)

\* what process_multi_transfer hands back after logging: the exception that
\* log_operation raised, or the outcome of building the ProcessingResult
MultiReturn(s, validation_result) ==
    IF s.exc # None
    THEN [s |-> s, result |-> [EmptyResult EXCEPT !.raised = s.exc]]
    ELSE [s |-> s, result |-> _create_processing_result(validation_result, TRUE)]

\* process_multi_transfer from the logging loop on
multi_transfer_logged(logged, simulation) ==
    IF logged.exc # None
    THEN MultiReturn(logged, simulation.final)
    ELSE MultiReturn(IF simulation.all_steps_valid
                     THEN [logged EXCEPT !.ib = Merge(@, simulation.sim)]
                     ELSE logged,
                     simulation.final)

\* process_multi_transfer once the simulation loop has run
multi_transfer_simulated(s, transfer_ops, tx_info, simulation) ==
    multi_transfer_logged(LogSteps(s, transfer_ops, 1, simulation.final, tx_info),
                          simulation)

\* process_multi_transfer from the total-balance pre-check on
multi_transfer_checked(s, t, tx_info, transfer_ops, parsed_ops, ticker, total_amount, sender_address, deploy_record, total_balance_validation) ==
    IF ~Truthy(total_balance_validation)
    THEN MultiReturn(log_operation(s, OpData("invalid", ticker, Some(total_amount)),
                                   [total_balance_validation EXCEPT
                                       !.error_code = "MULTI_TRANSFER_INSUFFICIENT_TOTAL_BALANCE"],
                                   tx_info, FALSE, TRUE, Absent),
                     [total_balance_validation EXCEPT
                         !.error_code = "MULTI_TRANSFER_INSUFFICIENT_TOTAL_BALANCE"])
    ELSE multi_transfer_simulated(s, transfer_ops, tx_info,
                                  SimulateSteps(parsed_ops, 1, s.ib, sender_address, ticker,
                                                deploy_record, t.vout))

\* process_multi_transfer from the meta rules on
multi_transfer_parsed(s, t, tx_info, transfer_ops, parsed_ops, meta) ==
    IF ~meta.validation.is_valid
    THEN MultiReturn(log_operation(s, OpData("transfer", "multiple", Absent),
                                   meta.validation, tx_info, FALSE, TRUE, Absent),
                     meta.validation)
    ELSE multi_transfer_checked(
             s, t, tx_info, transfer_ops, parsed_ops, meta.ticker, meta.total_amount,
             get_first_input_address(tx_info),
             get_deploy_record(meta.ticker, Absent),
             validate_transfer([tick |-> meta.ticker, amt |-> meta.total_amount],
                               get_balance(get_first_input_address(tx_info), meta.ticker,
                                           Some(s.ib)),
                               get_deploy_record(meta.ticker, Absent)))

process_multi_transfer(s, t, height, index, txid, transfer_ops) ==
    LET tx_info == TxInfo(t, txid, height, index, 0)
        structure_validation == validate_multi_transfer_structure(t, transfer_ops)
        parsed_ops == [k \in 1..Len(transfer_ops) |->
                          [parse_result |-> parse_brc20_operation(transfer_ops[k].hex_data),
                           vout_index |-> transfer_ops[k].vout_index]]
    IN IF ~structure_validation.is_valid
       THEN MultiReturn(log_operation(s, OpData("transfer", None, Absent),
                                      structure_validation, tx_info, FALSE, TRUE, Absent),
                        structure_validation)
       ELSE multi_transfer_parsed(s, t, tx_info, transfer_ops, parsed_ops,
                                  validate_multi_transfer_meta_rules(parsed_ops))

Unhandled == Result(None, TRUE, FALSE, "UNHANDLED_EXCEPTION", None, None, Absent)

\* the end of process_transaction: the result fields set before log_operation,
\* the except branch, the return
single_returned(dispatched, logged, operation_data) ==
    IF dispatched.s.exc # None
    THEN [s |-> dispatched.s, result |-> Unhandled]
    ELSE IF logged.exc # None
    THEN [s |-> logged,
          result |-> [Unhandled EXCEPT !.operation_type = operation_data.op,
                                       !.ticker = operation_data.tick,
                                       !.amount = ParsedOpData(operation_data).amt]]
    ELSE [s |-> logged,
          result |-> Result(None, TRUE, dispatched.vr.is_valid, dispatched.vr.error_code,
                            operation_data.op, operation_data.tick,
                            ParsedOpData(operation_data).amt)]

\* process_transaction from the call of log_operation on; dispatched is
\* [s, vr] as the operation's handler left them
single_dispatched(dispatched, operation_data, tx_info, is_marketplace) ==
    single_returned(dispatched,
                    log_operation(dispatched.s, ParsedOpData(operation_data), dispatched.vr,
                                  tx_info, is_marketplace, FALSE, Absent),
                    operation_data)

\* variant of single_validated that flags is_marketplace from the transfer
\* type alone, whatever the validation said
single_validated_flag_by_type(s, operation_data, tx_info, height, validation_result, transfer_type) ==
    single_dispatched(
        IF ~validation_result.is_valid THEN [s |-> s, vr |-> validation_result]
        ELSE IF operation_data.op = "deploy"
        THEN [s |-> process_deploy(s, operation_data, tx_info), vr |-> validation_result]
        ELSE IF operation_data.op = "mint"
        THEN [s |-> process_mint(s, operation_data, tx_info), vr |-> validation_result]
        ELSE IF operation_data.op = "transfer"
        THEN IF transfer_type = "KeyError"
             THEN [s |-> Raise(s, "KeyError"), vr |-> validation_result]
             ELSE process_transfer(s, operation_data, tx_info, validation_result, height)
        ELSE [s |-> s, vr |-> validation_result],
        operation_data, tx_info,
        transfer_type = "MARKETPLACE")

\* process_transaction from the dispatch on op_type on
single_validated(s, operation_data, tx_info, height, validation_result, transfer_type) ==
    single_dispatched(
        IF ~validation_result.is_valid THEN [s |-> s, vr |-> validation_result]
        ELSE IF operation_data.op = "deploy"
        THEN [s |-> process_deploy(s, operation_data, tx_info), vr |-> validation_result]
        ELSE IF operation_data.op = "mint"
        THEN [s |-> process_mint(s, operation_data, tx_info), vr |-> validation_result]
        ELSE IF operation_data.op = "transfer"
        THEN IF transfer_type = "KeyError"
             THEN [s |-> Raise(s, "KeyError"), vr |-> validation_result]
             ELSE process_transfer(s, operation_data, tx_info, validation_result, height)
        ELSE [s |-> s, vr |-> validation_result],
        operation_data, tx_info,
        /\ validation_result.is_valid
        /\ operation_data.op = "transfer"
        /\ transfer_type = "MARKETPLACE")

\* process_transaction from the try block on; operation_data has its tick in
\* uppercase
single_parsed(s, t, tx_info, operation_data, height) ==
    single_validated(s, operation_data, tx_info, height,
                     validate_complete_operation(operation_data, t.vout,
                                                 get_first_input_address(tx_info),
                                                 Some(s.ib), Some(s.itm), Some(s.idp)),
                     classify_transfer_type(tx_info, height))

\* the return after a parse failure was logged, outside the try block
parse_failure_logged(s1) ==
    IF s1.exc # None
    THEN [s |-> s1, result |-> [EmptyResult EXCEPT !.raised = s1.exc]]
    ELSE [s |-> s1, result |-> EmptyResult]

\* variant of parse_failed that logs an INVALID_JSON failure like the others
parse_failed_logging_all(s, parse_result, tx_info) ==
    parse_failure_logged(log_operation(s, OpData("invalid", None, Absent),
                                       VR(FALSE, parse_result.error_code),
                                       tx_info, FALSE, FALSE, Absent))

\* process_transaction when parse_result["success"] is false
parse_failed(s, parse_result, tx_info) ==
    IF parse_result.error_code # "INVALID_JSON"
    THEN parse_failure_logged(log_operation(s, OpData("invalid", None, Absent),
                                            VR(FALSE, parse_result.error_code),
                                            tx_info, FALSE, FALSE, Absent))
    ELSE [s |-> s, result |-> EmptyResult]

\* returns [s, result]
process_transaction(s, t, height, index, txid) ==
    LET multi_transfer_ops == extract_multi_transfer_op_returns(t)
        extracted == extract_op_return_data(t)
        tx_info == TxInfo(t, txid, height, index, extracted.vout_index)
        parse_result == parse_brc20_operation(extracted.hex_data)
    IN IF Len(multi_transfer_ops) > 1
       THEN process_multi_transfer(s, t, height, index, txid, multi_transfer_ops)
       ELSE IF ~extracted.found
       THEN [s |-> s, result |-> EmptyResult]
       ELSE IF ~parse_result.success
       THEN parse_failed(s, parse_result, tx_info)
       ELSE single_parsed(s, t, tx_info, [parse_result.data EXCEPT !.tick = Upper(@)],
                          height)

\* ------------------------------------------------------------------ inputs
\* The transactions the block source feeds to process_transaction.

Tickers == {"ORDI", "ordi"}
Amounts == {Whole(a) : a \in 1..MaxAmt}
\* amounts with a fractional part: a half, one and a quarter, one and a half
FractionalAmounts ==
    {AmountScale \div 2, Whole(1) + AmountScale \div 4, Whole(1) + AmountScale \div 2}

\* input lists: one plain input, a coinbase, and the marketplace shapes
Plain(a) == <<In(a, FALSE)>>
MarketEarly == <<In("a1", TRUE), In("a2", FALSE), In("a3", FALSE)>>
MarketNew == <<In("a1", TRUE), In("a1", TRUE), In("a2", FALSE), In("a3", FALSE)>>
MarketBad == <<In("a1", TRUE)>>
\* the new template's shape with the signature missing on inputs[1]
MarketOneSig == <<In("a1", TRUE), In("a1", FALSE), In("a2", FALSE), In("a3", FALSE)>>

Single(vin, payload, recipient, ts) == Tx(vin, <<OpRet(payload), Std(recipient)>>, ts)
Multi(vin, p1, r1, p2, r2, ts) ==
    Tx(vin, <<OpRet(p1), Std(r1), OpRet(p2), Std(r2)>>, ts)

DeployTxs ==
    {Single(Plain("a1"), DeployOp("ORDI", Whole(MaxAmt + 1), Absent), "a1", 1),
     Single(Plain("a2"), DeployOp("ordi", Whole(MaxAmt), Some(Whole(1))), "a2", 1),
     Tx(Plain("a1"), <<OpRet(DeployOp("ordi", Whole(MaxAmt), Absent))>>, 1)}

MintTxs ==
    {Single(Plain("a3"), MintOp("ORDI", a), "a1", 1) : a \in Amounts}
    \cup {Single(Plain("a3"), MintOp("ordi", a), "a2", 1) : a \in Amounts}
    \cup {Single(Plain("a3"), MintOp("ORDI", a), "a1", 1) : a \in FractionalAmounts}
    \cup {Single(Plain("a3"), MintOp("ORDI", Whole(1)), None, 1),
          Tx(Plain("a3"), <<OpRet(MintOp("ORDI", Whole(1)))>>, 1)}

TransferTxs ==
    {Single(Plain("a1"), TransferOp("ORDI", a), "a2", 1) : a \in Amounts}
    \cup {Single(Plain("a2"), TransferOp("ordi", a), "a3", 1) : a \in Amounts}
    \cup {Single(Plain("a1"), TransferOp("ordi", Whole(1)), "a1", 1),
          Single(<<Coinbase>>, TransferOp("ORDI", Whole(1)), "a2", 1),
          Single(Plain(None), TransferOp("ORDI", Whole(1)), "a2", 1),
          Single(Plain("a1"), TransferOp("ORDI", Whole(1)), None, 1)}

MarketTxs ==
    {Single(vin, TransferOp("ORDI", Whole(1)), "a2", 1) : vin \in {MarketEarly, MarketNew, MarketBad, MarketOneSig}}

OtherTxs ==
    {Single(Plain("a1"), BadPayload("INVALID_JSON"), "a2", 1),
     Single(Plain("a1"), BadPayload("MISSING_FIELD"), "a2", 1),
     Single(Plain("a1"), BadPayload("INVALID_OPERATION"), "a2", 1),
     Single(Plain("a1"), BadPayload("INVALID_AMOUNT"), "a2", 1),
     Tx(Plain("a1"), <<Std("a2")>>, 1)}

MultiTxs ==
    {Multi(Plain("a1"), TransferOp("ORDI", Whole(1)), "a2", TransferOp("ORDI", Whole(1)), "a3", 1),
     Multi(Plain("a1"), TransferOp("ORDI", Whole(1)), "a2", TransferOp("ORDI", Whole(MaxAmt)), "a1", 1),
     Multi(Plain("a1"), TransferOp("ordi", Whole(1)), "a2", TransferOp("ordi", Whole(1)), "a3", 1),
     Multi(Plain("a1"), TransferOp("ORDI", Whole(1)), None, TransferOp("ORDI", Whole(1)), "a2", 1),
     Multi(MarketBad, TransferOp("ORDI", Whole(1)), "a2", TransferOp("ORDI", Whole(1)), "a3", 1),
     Tx(Plain("a1"), <<OpRet(TransferOp("ORDI", Whole(1))), OpRet(TransferOp("ORDI", Whole(1))), Std("a2")>>, 1)}

\* the same with a block timestamp that _convert_block_timestamp refuses
BadTimestampTxs ==
    {Single(Plain("a1"), DeployOp("ORDI", Whole(MaxAmt + 1), Absent), "a1", 0),
     Single(Plain("a3"), MintOp("ORDI", Whole(1)), "a1", 0),
     Single(Plain("a1"), TransferOp("ORDI", Whole(1)), "a2", 0),
     Single(Plain("a1"), BadPayload("MISSING_FIELD"), "a2", 0),
     Multi(Plain("a1"), TransferOp("ORDI", Whole(1)), "a2", TransferOp("ORDI", Whole(1)), "a3", 0)}

TxInputs == DeployTxs \cup MintTxs \cup TransferTxs \cup MarketTxs \cup OtherTxs
            \cup MultiTxs \cup BadTimestampTxs

\* ----------------------------------------------------------- specification

NoTx == Tx(<<>>, <<>>, 1)
NoCall == [fn |-> "none"]

Init ==
    /\ intermediate_balances = EmptyDict
    /\ intermediate_total_minted = EmptyDict
    /\ intermediate_deploys = EmptyDict
    /\ session_balances = EmptyDict
    /\ session_deploys = {}
    /\ session_ops = <<>>
    /\ db_balances = EmptyDict
    /\ db_deploys = {}
    /\ db_ops = <<>>
    /\ store_scan_upper_first = TRUE
    /\ block_height = StartHeight
    /\ tx_index = 0
    /\ nTx = 0
    /\ tx = NoTx
    /\ result = EmptyResult
    /\ call = NoCall
    /\ ret = NoCall

\* what a call leaves behind: the dictionaries it was handed, the session,
\* and the ProcessingResult (or the exception) the caller gets
Returned(out) ==
    /\ intermediate_balances' = out.s.ib
    /\ intermediate_total_minted' = out.s.itm
    /\ intermediate_deploys' = out.s.idp
    /\ session_balances' = out.s.sb
    /\ session_deploys' = out.s.sd
    /\ session_ops' = out.s.so
    /\ result' = out.result

\* the committed tables after a call of process_transaction, given the rows
\* the session holds staged.  The session and its configuration are not part
\* of the sources; as the specification has it, the rows reach the Store
\* when the caller commits the block, not before
StoreAfterCall(store, staged) ==
    store

\* one call of process_transaction on the next transaction of the block
ProcessTransaction(t) ==
    /\ nTx < MaxTx
    /\ Returned(process_transaction(Cur, t, block_height, tx_index, nTx + 1))
    /\ tx' = t
    /\ nTx' = nTx + 1
    /\ tx_index' = tx_index + 1
    /\ db_balances' = StoreAfterCall([balances |-> db_balances, deploys |-> db_deploys], [balances |-> session_balances', deploys |-> session_deploys']).balances
    /\ db_deploys' = StoreAfterCall([balances |-> db_balances, deploys |-> db_deploys], [balances |-> session_balances', deploys |-> session_deploys']).deploys
    /\ UNCHANGED <<db_ops, store_scan_upper_first, block_height>>
    /\ UNCHANGED <<call, ret>>

\* the block boundary: the caller commits the block (the rows added to the
\* session and the intermediate dictionaries) and starts the next block with
\* fresh intermediate dictionaries
CommitBlock ==
    /\ block_height - StartHeight < MaxBlocks - 1
    /\ db_balances' = Merge(Merge(db_balances, session_balances), intermediate_balances)
    /\ db_deploys' = db_deploys \cup session_deploys
                      \cup {intermediate_deploys[k] : k \in DOMAIN intermediate_deploys}
    /\ db_ops' = db_ops \o session_ops
    /\ store_scan_upper_first' \in
           IF \E j, k \in DOMAIN db_balances' : j # k /\ j[1] = k[1] /\ ILike(j[2], k[2])
           THEN BOOLEAN ELSE {TRUE}
    /\ session_balances' = EmptyDict
    /\ session_deploys' = {}
    /\ session_ops' = <<>>
    /\ intermediate_balances' = EmptyDict
    /\ intermediate_total_minted' = EmptyDict
    /\ intermediate_deploys' = EmptyDict
    /\ block_height' = block_height + 1
    /\ tx_index' = 0
    /\ UNCHANGED <<nTx, tx, result, call, ret>>

Next ==
    \/ \E t \in TxInputs : ProcessTransaction(t)
    \/ CommitBlock

Spec == Init /\ [][Next]_vars

\* ------------------------------------------------------------ direct calls
\* The methods that are functions of their arguments, called directly on
\* arguments of every shape rather than through process_transaction. A
\* behaviour makes one such call: the result depends on the arguments only.

\* amounts as the validator may be handed them: 0 stands for an amount that
\* is_valid_amount refuses
CallAmounts == {Whole(a) : a \in 0..(MaxAmt + 1)}
CallDeploys ==
    {Absent}
    \cup {Some([ticker |-> "ORDI", max_supply |-> Whole(MaxAmt + 1), limit_per_op |-> l,
                deploy_txid |-> 1, deploy_height |-> StartHeight,
                deployer_address |-> "a1"]) : l \in {Absent, Some(Whole(1))}}

ValidateTransferCall ==
    /\ call = NoCall
    /\ \E tick \in Tickers, amt \in CallAmounts, sender_balance \in CallAmounts,
          deploy \in CallDeploys :
           /\ call' = [fn |-> "validate_transfer",
                       operation |-> TransferOp(tick, amt),
                       sender_balance |-> sender_balance,
                       deploy |-> deploy]
           /\ ret' = validate_transfer(TransferOp(tick, amt), sender_balance, deploy)
    /\ UNCHANGED loopvars

\* the inputs of a transaction as the UTXO service resolves them: up to
\* MaxInputs spends, each with a resolved or unresolved address and with or
\* without a SIGHASH_SINGLE | ANYONECANPAY signature, or the one input of a
\* coinbase transaction
MaxInputs == 4
CallInputs == {In(a, sg) : a \in Addrs \cup {None}, sg \in BOOLEAN}
CallVins == {<<Coinbase>>} \cup UNION {[1..n -> CallInputs] : n \in 0..MaxInputs}
CallHeights == {MARKETPLACE_FORK_HEIGHT - 1, MARKETPLACE_FORK_HEIGHT}

ClassifyTransferTypeCall ==
    /\ call = NoCall
    /\ \E vin \in CallVins, height \in CallHeights :
           /\ call' = [fn |-> "classify_transfer_type", vin |-> vin,
                       block_height |-> height]
           /\ ret' = classify_transfer_type([vin |-> vin], height)
    /\ UNCHANGED loopvars

EarlyTemplateCall ==
    /\ call = NoCall
    /\ \E vin \in CallVins :
           /\ call' = [fn |-> "_validate_early_marketplace_template", vin |-> vin]
           /\ ret' = _validate_early_marketplace_template([vin |-> vin])
    /\ UNCHANGED loopvars

NewTemplateCall ==
    /\ call = NoCall
    /\ \E vin \in CallVins :
           /\ call' = [fn |-> "_validate_new_marketplace_template", vin |-> vin]
           /\ ret' = _validate_new_marketplace_template([vin |-> vin])
    /\ UNCHANGED loopvars

\* the outputs of a transaction: up to MaxOutputs outputs, each an OP_RETURN
\* or a standard output with or without scriptPubKey.addresses, with or
\* without scriptPubKey.address, with or without an address derived from the
\* script
MaxOutputs == 3
CallOutputs ==
    {OpRet(NoPayload)}
    \cup {Out(FALSE, NoPayload, addresses, address, script) :
              addresses \in {<<>>, <<"a1">>, <<"a1", "a3">>},
              address \in {None, "a2"}, script \in {None, "a3"}}
CallVouts == UNION {[1..n -> CallOutputs] : n \in 0..MaxOutputs}

RecipientCall ==
    /\ call = NoCall
    /\ \E tx_outputs \in CallVouts :
           /\ call' = [fn |-> "get_output_after_op_return_address",
                       tx_outputs |-> tx_outputs]
           /\ ret' = get_output_after_op_return_address(tx_outputs)
    /\ UNCHANGED loopvars

\* the outputs of a transaction that carries an operation: the OP_RETURN the
\* operation was read from is among them
OperationVouts == {v \in CallVouts : \E i \in 1..Len(v) : v[i].opret}
CallOperations == {DeployOp("ORDI", Whole(1), Absent), MintOp("ORDI", Whole(1)), TransferOp("ORDI", Whole(1))}

OutputAddressesCall ==
    /\ call = NoCall
    /\ \E tx_outputs \in OperationVouts, operation_type \in {"deploy", "mint", "transfer"} :
           /\ call' = [fn |-> "validate_output_addresses", tx_outputs |-> tx_outputs,
                       operation_type |-> operation_type]
           /\ ret' = validate_output_addresses(tx_outputs, operation_type)
    /\ UNCHANGED loopvars

\* validate_complete_operation on an empty Store and empty intermediate
\* dictionaries
ValidateCompleteOperationCall ==
    /\ call = NoCall
    /\ \E operation \in CallOperations, tx_outputs \in OperationVouts, sender_address \in {"a1", None} :
           /\ call' = [fn |-> "validate_complete_operation", operation |-> operation,
                       tx_outputs |-> tx_outputs, sender_address |-> sender_address,
                       intermediate_total_minted |-> EmptyDict,
                       intermediate_deploys |-> EmptyDict]
           /\ ret' = validate_complete_operation(operation, tx_outputs, sender_address,
                                                 Some(EmptyDict), Some(EmptyDict),
                                                 Some(EmptyDict))
    /\ UNCHANGED loopvars

\* the mints validate_complete_operation may be handed: an amount that
\* is_valid_amount refuses (0) or accepts, with or without a recipient after
\* the OP_RETURN, the ticker deployed in the block or not, with or without
\* limit_per_op, at every cumulative mint total up to max_supply
MintVouts ==
    {<<OpRet(NoPayload)>>, <<OpRet(NoPayload), Std(None)>>, <<OpRet(NoPayload), Std("a1")>>,
     <<OpRet(NoPayload), OpRet(NoPayload), Std("a1")>>, <<Std("a2"), OpRet(NoPayload)>>}
MintDeploys ==
    {EmptyDict}
    \cup {Put(EmptyDict, "ORDI", [ticker |-> "ORDI", max_supply |-> Whole(MaxAmt), limit_per_op |-> l, deploy_txid |-> 1, deploy_height |-> StartHeight, deployer_address |-> "a1"]) : l \in {Absent, Some(Whole(1))}}
MintTotals == {EmptyDict} \cup {Put(EmptyDict, "ORDI", Whole(n)) : n \in 0..MaxAmt}

ValidateMintCall ==
    /\ call = NoCall
    /\ \E amt \in CallAmounts, tx_outputs \in MintVouts, idp \in MintDeploys, itm \in MintTotals :
           /\ call' = [fn |-> "validate_complete_operation", operation |-> MintOp("ORDI", amt),
                       tx_outputs |-> tx_outputs, sender_address |-> "a3",
                       intermediate_total_minted |-> itm,
                       intermediate_deploys |-> idp]
           /\ ret' = validate_complete_operation(MintOp("ORDI", amt), tx_outputs, "a3",
                                                 Some(EmptyDict), Some(itm), Some(idp))
    /\ UNCHANGED loopvars

CallNext ==
    \/ ValidateTransferCall
    \/ ClassifyTransferTypeCall
    \/ EarlyTemplateCall
    \/ NewTemplateCall
    \/ RecipientCall
    \/ OutputAddressesCall
    \/ ValidateCompleteOperationCall
    \/ ValidateMintCall

CallSpec == Init /\ [][CallNext]_vars

\* ------------------------------------------------------------- observations
\* What the claims speak of, read the way BRC20Validator reads it.

AllOps == db_ops \o session_ops
AllDeployRows ==
    db_deploys \cup session_deploys
    \cup {intermediate_deploys[k] : k \in DOMAIN intermediate_deploys}

\* overlay first, then Store
CumulativeMint(t) == get_total_minted(t, Some(intermediate_total_minted))
Balance(a, t) == get_balance(a, t, Some(intermediate_balances))
DeployOf(t) == get_deploy_record(t, Some(intermediate_deploys))

\* the Store alone
StoreMinted(t) == get_total_minted(t, Absent)
StoreBalance(a, t) == get_balance(a, t, Absent)
StoreDeploy(t) == get_deploy_record(t, Absent)

RECURSIVE SumBalance(_, _)
SumBalance(S, t) ==
    IF S = {} THEN 0
    ELSE LET a == CHOOSE x \in S : TRUE
         IN Balance(a, t) + SumBalance(S \ {a}, t)

RECURSIVE SumStoreBalance(_, _)
SumStoreBalance(S, t) ==
    IF S = {} THEN 0
    ELSE LET a == CHOOSE x \in S : TRUE
         IN StoreBalance(a, t) + SumStoreBalance(S \ {a}, t)

HasValidMint(ops, t) ==
    \E i \in 1..Len(ops) :
        /\ ops[i].operation = "mint"
        /\ ops[i].is_valid
        /\ ILike(ops[i].ticker, t)

\* the step just taken was a call of process_transaction
Called == nTx' = nTx + 1
\* the log entries the call appended
Appended == SubSeq(session_ops', Len(session_ops) + 1, Len(session_ops'))
\* the call neither raised nor ended in UNHANDLED_EXCEPTION
NoException(r) == r.raised = None /\ r.error_code # "UNHANDLED_EXCEPTION"
\* the single operation the first OP_RETURN of the last transaction carries
SingleOp(t) == extract_op_return_data(t).hex_data
IsSingle(t, op) ==
    /\ Len(extract_multi_transfer_op_returns(t)) <= 1
    /\ extract_op_return_data(t).found
    /\ SingleOp(t).kind = "ok"
    /\ SingleOp(t).op = op
IsMulti(t) == Len(extract_multi_transfer_op_returns(t)) > 1

\* ------------------------------------------------------------------ claims

\* C1: for every deployed ticker the cumulative minted total (the overlay's
\* value when it has one, else the Store's total of valid mints) is at most
\* the max_supply of the ticker's deploy, in the block's view and in the
\* Store's view.
C1_MintedWithinMaxSupply ==
    \A t \in Tickers :
        /\ DeployOf(t) # Absent => CumulativeMint(t) <= DeployOf(t)[1].max_supply
        /\ StoreDeploy(t) # Absent => StoreMinted(t) <= StoreDeploy(t)[1].max_supply

\* C2: every balance of every (address, ticker) pair, in the overlay, in the
\* rows staged in the session and in the Store, is at least zero.
C2_BalancesNonNegative ==
    /\ \A k \in DOMAIN intermediate_balances : intermediate_balances[k] >= 0
    /\ \A k \in DOMAIN session_balances : session_balances[k] >= 0
    /\ \A k \in DOMAIN db_balances : db_balances[k] >= 0

\* a transfer was refused for insufficient balance while its sender holds
\* tokens: the debit that would have gone below zero was not applied
C2_Witness ==
    /\ IsSingle(tx, "transfer")
    /\ result.error_code = "INSUFFICIENT_BALANCE"
    /\ Balance(get_first_input_address(tx), SingleOp(tx).tick) > 0
    /\ Balance(get_first_input_address(tx), SingleOp(tx).tick) < SingleOp(tx).amt

\* C3: conservation: for every ticker with a valid mint, the balances of all
\* addresses sum to the cumulative minted total, in the block's view and in
\* the Store's view.
C3_Conservation ==
    \A t \in Tickers :
        /\ HasValidMint(AllOps, t) => SumBalance(Addrs, t) = CumulativeMint(t)
        /\ HasValidMint(db_ops, t) => SumStoreBalance(Addrs, t) = StoreMinted(t)

\* C4: at most one Deploy per case-insensitive ticker across the Store, the
\* session and the overlay; a deploy whose ticker is already deployed creates
\* no Deploy and is refused with TICKER_ALREADY_EXISTS.
C4_OneDeployPerTicker ==
    \A d1, d2 \in AllDeployRows : ILike(d1.ticker, d2.ticker) => d1 = d2

C4_DuplicateRefused ==
    (Called /\ IsSingle(tx', "deploy") /\ DeployOf(SingleOp(tx').tick) # Absent)
        => /\ AllDeployRows' = AllDeployRows
           /\ ~result'.is_valid
           /\ NoException(result') => result'.error_code = "TICKER_ALREADY_EXISTS"

C4_TickerUniqueness == [](C4_OneDeployPerTicker) /\ [][C4_DuplicateRefused]_vars

\* a deploy in another letter case was refused in a later block
C4_Witness ==
    /\ IsSingle(tx, "deploy")
    /\ result.error_code = "TICKER_ALREADY_EXISTS"
    /\ StoreDeploy(SingleOp(tx).tick) # Absent
    /\ StoreDeploy(SingleOp(tx).tick)[1].ticker # SingleOp(tx).tick

\* a multi-transfer that passes the structural rules, in a block whose
\* timestamp can be converted
WellFormedMulti(t) ==
    /\ IsMulti(t)
    /\ t.block_timestamp > 0
    /\ validate_multi_transfer_structure(t, extract_multi_transfer_op_returns(t)).is_valid

\* C5: multi-transfer atomicity: after a transaction with N >= 2 transfer
\* OP_RETURNs either all N step entries are valid and the balances reflect
\* every step (sender debited by the sum, each recipient credited its step
\* amounts), or every appended entry is invalid and no balance changed.
StepRecipient(t, k) ==
    LET ops == extract_multi_transfer_op_returns(t)
    IN get_output_after_op_return_address(SubSeq(t.vout, ops[k].vout_index + 1, Len(t.vout)))

StepTotal(t) ==
    LET ops == extract_multi_transfer_op_returns(t)
    IN SumSeq([k \in 1..Len(ops) |-> ops[k].hex_data.amt])

Credited(t, a) ==
    LET ops == extract_multi_transfer_op_returns(t)
    IN SumSeq([k \in 1..Len(ops) |->
                  IF StepRecipient(t, k) = a THEN ops[k].hex_data.amt ELSE 0])

BalanceIn(ib, a, t) == get_balance(a, t, Some(ib))

C5_StepsApplied(t) ==
    LET tick == extract_multi_transfer_op_returns(t)[1].hex_data.tick
        sender == get_first_input_address(t)
    IN \A a \in Addrs :
           BalanceIn(intermediate_balances', a, tick)
             = BalanceIn(intermediate_balances, a, tick)
               - (IF a = sender THEN StepTotal(t) ELSE 0) + Credited(t, a)

C5_AllOrNothing ==
    (Called /\ IsMulti(tx')) =>
        \/ /\ Len(Appended) = Len(extract_multi_transfer_op_returns(tx'))
           /\ \A i \in 1..Len(Appended) : Appended[i].is_valid
           /\ C5_StepsApplied(tx')
        \/ /\ \A i \in 1..Len(Appended) : ~Appended[i].is_valid
           /\ UNCHANGED <<intermediate_balances, session_balances>>

C5_MultiTransferAtomic == [][C5_AllOrNothing]_vars

\* C6: every call appends exactly one log entry per BRC-20-shaped OP_RETURN of
\* the transaction, and none for an OP_RETURN that is not valid JSON (stated
\* for single operations and well-formed multi-transfers whose block
\* timestamp can be converted).
ShapedOpReturns(t) ==
    {i \in OpReturnIndexes(t.vout) : t.vout[i].payload.kind # "INVALID_JSON"}

C6_EntryPerOpReturn ==
    (Called /\ tx'.block_timestamp > 0 /\ (IsMulti(tx') => WellFormedMulti(tx')))
        => Len(Appended) = Cardinality(ShapedOpReturns(tx'))

C6_OneEntryPerShapedOpReturn == [][C6_EntryPerOpReturn]_vars

\* C7: when the sender of a well-formed multi-transfer of a deployed ticker
\* holds less than the sum of the N step amounts, N entries are appended, each
\* invalid with MULTI_TRANSFER_INSUFFICIENT_TOTAL_BALANCE, and no balance
\* changes.
C7_PreCheckFails(t) ==
    LET ops == extract_multi_transfer_op_returns(t)
        tick == ops[1].hex_data.tick
    IN /\ WellFormedMulti(t)
       /\ StoreDeploy(tick) # Absent
       /\ Balance(get_first_input_address(t), tick) > 0
       /\ Balance(get_first_input_address(t), tick) < StepTotal(t)

C7_AllStepsLoggedFailed ==
    (Called /\ C7_PreCheckFails(tx')) =>
        /\ Len(Appended) = Len(extract_multi_transfer_op_returns(tx'))
        /\ \A i \in 1..Len(Appended) :
               /\ ~Appended[i].is_valid
               /\ Appended[i].error_code = "MULTI_TRANSFER_INSUFFICIENT_TOTAL_BALANCE"
        /\ UNCHANGED <<intermediate_balances, session_balances>>

C7_TotalBalancePreCheck == [][C7_AllStepsLoggedFailed]_vars

\* C8: no exception escapes process_transaction: on the multi-transfer path,
\* its result building included, the caller gets a ProcessingResult (stated
\* for well-formed multi-transfers).
C8_NoExceptionEscapes ==
    WellFormedMulti(tx) => result.raised = None

\* C9: a multi-transfer of a ticker deployed earlier in the same block, by a
\* sender the overlay credits with at least the total, finds the ticker
\* deployed and the balance sufficient: all its step entries are valid.
C9_SeenThroughOverlay(t) ==
    LET ops == extract_multi_transfer_op_returns(t)
        tick == ops[1].hex_data.tick
    IN /\ WellFormedMulti(t)
       /\ \A k \in 1..Len(ops) : StepRecipient(t, k) # None
       /\ Has(intermediate_deploys, Upper(tick))
       /\ Has(intermediate_balances, <<get_first_input_address(t), Upper(tick)>>)
       /\ Balance(get_first_input_address(t), tick) >= StepTotal(t)

C9_MultiTransferObserves ==
    (Called /\ C9_SeenThroughOverlay(tx')) =>
        /\ Len(Appended) = Len(extract_multi_transfer_op_returns(tx'))
        /\ \A i \in 1..Len(Appended) : Appended[i].is_valid

C9_IntraBlockVisibility == [][C9_MultiTransferObserves]_vars

\* C10: a mint of a deployed ticker to a standard output, within the per-mint
\* limit, is refused with EXCEEDS_MAX_SUPPLY exactly when the current total
\* (overlay first, else the Store's) plus the amount is above max_supply: no
\* call returns that code otherwise, a refused mint leaves the total alone,
\* and an accepted one (the one reaching max_supply exactly included) raises
\* it by the amount.
MintedIn(itm, t) == get_total_minted(t, Some(itm))

C10_MintChecked(t) ==
    /\ IsSingle(t, "mint")
    /\ DeployOf(SingleOp(t).tick) # Absent
    /\ get_output_after_op_return_address(t.vout) # None
    /\ LET limit == DeployOf(SingleOp(t).tick)[1].limit_per_op
       IN limit = Absent \/ SingleOp(t).amt <= limit[1]

C10_Over(t) ==
    CumulativeMint(SingleOp(t).tick) + SingleOp(t).amt
        > DeployOf(SingleOp(t).tick)[1].max_supply

C10_Step ==
    Called =>
        /\ result'.error_code = "EXCEEDS_MAX_SUPPLY"
               => C10_MintChecked(tx') /\ C10_Over(tx')
        /\ (C10_MintChecked(tx') /\ C10_Over(tx')) =>
               /\ MintedIn(intermediate_total_minted', SingleOp(tx').tick)
                    = CumulativeMint(SingleOp(tx').tick)
               /\ ~result'.is_valid
               /\ NoException(result') => result'.error_code = "EXCEEDS_MAX_SUPPLY"
        /\ (C10_MintChecked(tx') /\ ~C10_Over(tx')) =>
               /\ MintedIn(intermediate_total_minted', SingleOp(tx').tick)
                    = CumulativeMint(SingleOp(tx').tick) + SingleOp(tx').amt
               /\ NoException(result') => result'.is_valid

NoMutation ==
    UNCHANGED <<intermediate_balances, intermediate_total_minted, intermediate_deploys,
                session_balances, session_deploys>>

\* the call appended exactly one log entry, invalid, with the given code
OneFailedEntry(code) ==
    /\ Len(Appended) = 1
    /\ ~Appended[1].is_valid
    /\ Appended[1].error_code = code

\* C11: a mint of a deployed ticker to a standard output is refused with
\* EXCEEDS_MINT_LIMIT exactly when the deploy has limit_per_op and the amount
\* is above it (equal is not refused for the limit, and nothing is when the
\* limit is absent); the refused mint is logged once with that code and
\* changes no balance and no cumulative total.
C11_MintDeployed(t) ==
    /\ IsSingle(t, "mint")
    /\ DeployOf(SingleOp(t).tick) # Absent
    /\ get_output_after_op_return_address(t.vout) # None

C11_OverLimit(t) ==
    LET limit == DeployOf(SingleOp(t).tick)[1].limit_per_op
    IN limit # Absent /\ SingleOp(t).amt > limit[1]

C11_Step ==
    Called =>
        /\ result'.error_code = "EXCEEDS_MINT_LIMIT"
               => C11_MintDeployed(tx') /\ C11_OverLimit(tx')
        /\ (C11_MintDeployed(tx') /\ C11_OverLimit(tx')) =>
               /\ ~result'.is_valid
               /\ NoMutation
               /\ NoException(result') =>
                      /\ result'.error_code = "EXCEEDS_MINT_LIMIT"
                      /\ OneFailedEntry("EXCEEDS_MINT_LIMIT")

C11_ExceedsMintLimit == [][C11_Step]_vars

\* a mint above the limit was refused right after a mint of exactly the limit
\* was accepted
C11_Witness ==
    /\ IsSingle(tx, "mint")
    /\ result.error_code = "EXCEEDS_MINT_LIMIT"
    /\ Len(session_ops) >= 2
    /\ session_ops[Len(session_ops)].error_code = "EXCEEDS_MINT_LIMIT"
    /\ session_ops[Len(session_ops) - 1].operation = "mint"
    /\ session_ops[Len(session_ops) - 1].is_valid
    /\ session_ops[Len(session_ops) - 1].amount
           = DeployOf(SingleOp(tx).tick)[1].limit_per_op

\* the verdict of validate_complete_operation on the single operation of t,
\* in the state before the call
Validation(t) ==
    validate_complete_operation([SingleOp(t) EXCEPT !.tick = Upper(@)], t.vout,
                                get_first_input_address(t),
                                Some(intermediate_balances),
                                Some(intermediate_total_minted),
                                Some(intermediate_deploys))

IsSingleOperation(t) ==
    IsSingle(t, "deploy") \/ IsSingle(t, "mint") \/ IsSingle(t, "transfer")

\* C12: a deploy, mint or transfer that fails a rule (the call ends with an
\* invalid result and without exception) appends exactly one log entry,
\* invalid, with the result's error code, which is the code of the failed
\* validation, and changes no intermediate dictionary and no row.
C12_Step ==
    (Called /\ IsSingleOperation(tx') /\ NoException(result') /\ ~result'.is_valid) =>
        /\ result'.error_code # None
        /\ OneFailedEntry(result'.error_code)
        /\ ~Validation(tx').is_valid => result'.error_code = Validation(tx').error_code
        /\ NoMutation

C12_RuleViolationFrame == [][C12_Step]_vars

\* a transfer its sender could afford was refused for its marketplace shape,
\* and logged so
C12_Witness ==
    /\ IsSingle(tx, "transfer")
    /\ result.error_code = "INVALID_MARKETPLACE_TRANSACTION"
    /\ Balance(get_first_input_address(tx), SingleOp(tx).tick) >= SingleOp(tx).amt
    /\ Len(session_ops) >= 1
    /\ session_ops[Len(session_ops)].error_code = "INVALID_MARKETPLACE_TRANSACTION"
    /\ ~session_ops[Len(session_ops)].is_valid

\* the sender and the recipient of the single transfer t
Sender(t) == get_first_input_address(t)
Recipient(t) == get_output_after_op_return_address(t.vout)

\* the call moved amt of ticker from sender to recipient in the overlay and
\* in the Balance rows, and touched no other balance
Moved(sender, recipient, ticker, amt) ==
    LET keys == {<<sender, Upper(ticker)>>, <<recipient, Upper(ticker)>>}
    IN /\ \A a \in {sender, recipient} :
              /\ BalanceIn(intermediate_balances', a, ticker)
                   = Balance(a, ticker) - (IF a = sender THEN amt ELSE 0)
                                        + (IF a = recipient THEN amt ELSE 0)
              /\ session_balances'[<<a, Upper(ticker)>>]
                   = BalanceIn(intermediate_balances', a, ticker)
       /\ DOMAIN intermediate_balances' = DOMAIN intermediate_balances \cup keys
       /\ DOMAIN session_balances' = DOMAIN session_balances \cup keys
       /\ \A k \in DOMAIN intermediate_balances \ keys :
              intermediate_balances'[k] = intermediate_balances[k]
       /\ \A k \in DOMAIN session_balances \ keys :
              session_balances'[k] = session_balances[k]

\* C13: a simple transfer that passes validation debits exactly amt from the
\* address of input 0 and credits exactly amt to the address of the output
\* after the OP_RETURN, leaves every other balance, every cumulative total and
\* every deploy unchanged, and is logged once, valid, from sender to recipient.
C13_Step ==
    (/\ Called
     /\ IsSingle(tx', "transfer")
     /\ Validation(tx').is_valid
     /\ ~_has_marketplace_sighash(tx')) =>
        /\ Moved(Sender(tx'), Recipient(tx'), SingleOp(tx').tick, SingleOp(tx').amt)
        /\ UNCHANGED <<intermediate_total_minted, intermediate_deploys, session_deploys>>
        /\ NoException(result') =>
               /\ result'.is_valid
               /\ Len(Appended) = 1
               /\ Appended[1].is_valid
               /\ Appended[1].operation = "transfer"
               /\ Appended[1].from_address = Sender(tx')
               /\ Appended[1].to_address = Recipient(tx')
               /\ Appended[1].amount = Some(SingleOp(tx').amt)
               /\ ~Appended[1].is_marketplace

C13_SimpleTransfer == [][C13_Step]_vars

\* deploy, mint 2 to a1, transfer 1 from a1 to a2: a1 holds 1, a2 holds 1, and
\* the cumulative total is still 2
C13_Witness ==
    /\ IsSingle(tx, "transfer")
    /\ result.is_valid
    /\ ~_has_marketplace_sighash(tx)
    /\ Sender(tx) # Recipient(tx)
    /\ Balance(Sender(tx), SingleOp(tx).tick) = Whole(1)
    /\ Balance(Recipient(tx), SingleOp(tx).tick) = SingleOp(tx).amt
    /\ CumulativeMint(SingleOp(tx).tick) = Whole(2)

\* C14: validate_transfer refuses with TICKER_NOT_DEPLOYED when the deploy is
\* missing, else with INVALID_AMOUNT on a bad amount, else with
\* INSUFFICIENT_BALANCE exactly when sender_balance < amt; otherwise it
\* accepts, the whole balance and an amount above limit_per_op included.
C14_ValidateTransfer ==
    call.fn = "validate_transfer" =>
        LET amt == call.operation.amt
        IN /\ call.deploy = Absent => ret = VR(FALSE, "TICKER_NOT_DEPLOYED")
           /\ (call.deploy # Absent /\ amt = 0) => ret = VR(FALSE, "INVALID_AMOUNT")
           /\ (call.deploy # Absent /\ amt > 0) =>
                  /\ call.sender_balance < amt => ret = VR(FALSE, "INSUFFICIENT_BALANCE")
                  /\ call.sender_balance >= amt => ret = Valid

\* the whole balance was transferred, above the deploy's limit_per_op
C14_Witness ==
    /\ call.fn = "validate_transfer"
    /\ ret.is_valid
    /\ call.deploy # Absent
    /\ call.deploy[1].limit_per_op # Absent
    /\ call.operation.amt > call.deploy[1].limit_per_op[1]
    /\ call.sender_balance = call.operation.amt

\* C15: a transfer whose sender (input 0 a coinbase or unresolved) or
\* recipient (no address after the OP_RETURN) is unresolved ends with
\* INVALID_ADDRESS on its result and on its log entry, and changes no balance.
C15_Unresolved(t) ==
    /\ IsSingle(t, "transfer")
    /\ Sender(t) = None \/ Recipient(t) = None

C15_Step ==
    (Called /\ C15_Unresolved(tx') /\ NoException(result')) =>
        /\ result'.error_code = "INVALID_ADDRESS"
        /\ OneFailedEntry("INVALID_ADDRESS")
        /\ NoMutation

C15_InvalidAddress == [][C15_Step]_vars

\* the inputs, from the first, that carry SIGHASH_SINGLE | ANYONECANPAY
SigInputs(vin) == {i \in 1..Len(vin) : vin[i].sig}
\* the distinct non-null addresses the inputs resolve to
DistinctAddresses(vin) == {vin[i].addr : i \in 1..Len(vin)} \ {None}

\* the early template as C18 states it
EarlyPasses(vin) ==
    /\ Len(vin) >= 3
    /\ SigInputs(vin) # {}
    /\ Cardinality(DistinctAddresses(vin)) >= 3

\* the new template as C17 states it
NewPasses(vin) ==
    /\ Len(vin) >= 3
    /\ vin[1].addr # None
    /\ vin[1].addr = vin[2].addr
    /\ vin[1].sig /\ vin[2].sig
    /\ Cardinality(DistinctAddresses(vin)) >= 3

\* C16: classify_transfer_type returns SIMPLE when no input carries
\* SIGHASH_SINGLE | ANYONECANPAY, at every height; otherwise it applies the
\* early template below height 901350 and the new template from 901350 on,
\* and returns MARKETPLACE when the template passes and INVALID_MARKETPLACE
\* when it fails.
C16_ClassifyTransferType ==
    call.fn = "classify_transfer_type" =>
        LET vin == call.vin
            passes == IF call.block_height < 901350 THEN EarlyPasses(vin)
                      ELSE NewPasses(vin)
        IN /\ SigInputs(vin) = {} => ret = "SIMPLE"
           /\ (SigInputs(vin) # {} /\ passes) => ret = "MARKETPLACE"
           /\ (SigInputs(vin) # {} /\ ~passes) => ret = "INVALID_MARKETPLACE"

\* at the fork height, inputs the early template accepts and the new one
\* refuses were classified INVALID_MARKETPLACE
C16_Witness ==
    /\ call.fn = "classify_transfer_type"
    /\ call.block_height = 901350
    /\ EarlyPasses(call.vin)
    /\ ret = "INVALID_MARKETPLACE"

\* C17: the new template passes exactly when there are at least 3 inputs,
\* inputs[0] and inputs[1] resolve to the same non-null address, both carry
\* SIGHASH_SINGLE | ANYONECANPAY, and the inputs resolve to at least 3
\* distinct addresses.
C17_NewTemplate ==
    call.fn = "_validate_new_marketplace_template" =>
        (ret.is_valid <=> NewPasses(call.vin))

\* the template passed on four inputs, and was refused on inputs that differ
\* only in the address of inputs[1]
C17_Witness ==
    /\ call.fn = "_validate_new_marketplace_template"
    /\ ret.is_valid
    /\ Len(call.vin) = 4
    /\ ~NewPasses([call.vin EXCEPT ![2].addr = call.vin[3].addr])

\* C18: the early template passes exactly when there are at least 3 inputs,
\* some input, at any position, carries SIGHASH_SINGLE | ANYONECANPAY, and
\* the inputs resolve to at least 3 distinct non-null addresses; the first
\* two inputs need not share an address.
C18_EarlyTemplate ==
    call.fn = "_validate_early_marketplace_template" =>
        (ret.is_valid <=> EarlyPasses(call.vin))

\* the template passed with the signature on the last input only and three
\* different addresses on the first three
C18_Witness ==
    /\ call.fn = "_validate_early_marketplace_template"
    /\ ret.is_valid
    /\ SigInputs(call.vin) = {Len(call.vin)}
    /\ call.vin[1].addr # call.vin[2].addr

\* the code the marketplace template of the height returned for the
\* transaction
TemplateCode(t) == validate_marketplace_transfer([vin |-> t.vin], block_height).error_code
\* the type the transaction is classified as at the height of the call
TransferType(t) == classify_transfer_type([vin |-> t.vin], block_height)

\* C19: a transfer classified INVALID_MARKETPLACE fails with the code the
\* template validation returned (INVALID_SIGHASH_TYPE when the sighash check
\* failed, INVALID_MARKETPLACE_TRANSACTION otherwise), and the log entry and
\* the ProcessingResult carry that same code.
C19_Step ==
    (/\ Called
     /\ IsSingle(tx', "transfer")
     /\ Validation(tx').is_valid
     /\ TransferType(tx') = "INVALID_MARKETPLACE"
     /\ NoException(result')) =>
        /\ ~result'.is_valid
        /\ result'.error_code = TemplateCode(tx')
        /\ OneFailedEntry(TemplateCode(tx'))

C19_TemplateCodePreserved == [][C19_Step]_vars

\* the transaction passes the marketplace template of the height of the call
TemplatePasses(t) ==
    IF block_height < 901350 THEN EarlyPasses(t.vin) ELSE NewPasses(t.vin)

\* C20: a transfer that passes the marketplace template of its height and is
\* valid (its sender has the balance) moves amt from the address of inputs[0]
\* to the address of the output after the OP_RETURN and is logged valid with
\* is_marketplace = true; a transfer that carries the sighash and fails the
\* template moves no balance.
C20_Step ==
    (Called /\ IsSingle(tx', "transfer")) =>
        /\ (Validation(tx').is_valid /\ TemplatePasses(tx')) =>
               /\ Moved(tx'.vin[1].addr, Recipient(tx'), SingleOp(tx').tick, SingleOp(tx').amt)
               /\ NoException(result') =>
                      /\ result'.is_valid
                      /\ Len(Appended) = 1
                      /\ Appended[1].is_valid
                      /\ Appended[1].is_marketplace
                      /\ Appended[1].from_address = tx'.vin[1].addr
                      /\ Appended[1].to_address = Recipient(tx')
        /\ (SigInputs(tx'.vin) # {} /\ ~TemplatePasses(tx')) =>
               /\ NoMutation
               /\ ~result'.is_valid

C20_MarketplaceTransfer == [][C20_Step]_vars

\* a sale under the new template moved the seller's whole balance to the buyer
C20_Witness ==
    /\ IsSingle(tx, "transfer")
    /\ block_height = 901350
    /\ NewPasses(tx.vin)
    /\ result.is_valid
    /\ Len(session_ops) > 0
    /\ session_ops[Len(session_ops)].is_marketplace
    /\ Balance(tx.vin[1].addr, "ORDI") = 0
    /\ Balance(Recipient(tx), "ORDI") = Whole(1)

\* a transfer with the sighash on inputs[0] alone, whose sender has the
\* balance, was refused
C20_RefusedWitness ==
    /\ IsSingle(tx, "transfer")
    /\ SigInputs(tx.vin) # {}
    /\ ~TemplatePasses(tx)
    /\ ~result.is_valid
    /\ result.error_code = "INVALID_MARKETPLACE_TRANSACTION"
    /\ Balance(tx.vin[1].addr, "ORDI") = Whole(1)

\* the index of the first OP_RETURN of the outputs, 0 when there is none
FirstOpReturn(tx_outputs) ==
    IF \E i \in 1..Len(tx_outputs) : tx_outputs[i].opret
    THEN CHOOSE i \in 1..Len(tx_outputs) :
             /\ tx_outputs[i].opret
             /\ \A j \in 1..(i - 1) : ~tx_outputs[j].opret
    ELSE 0

\* C21: the recipient is the address of the output right after the first
\* OP_RETURN; it is undefined when there is no such output, when that output
\* is an OP_RETURN, or when it yields no address; the address is
\* scriptPubKey.addresses[0] when present, else scriptPubKey.address, else
\* the address derived from the script.
C21_RecipientResolution ==
    call.fn = "get_output_after_op_return_address" =>
        LET outs == call.tx_outputs
            i == FirstOpReturn(outs)
        IN IF i = 0 \/ i + 1 > Len(outs) THEN ret = None
           ELSE LET next == outs[i + 1]
                IN /\ next.opret => ret = None
                   /\ (~next.opret /\ next.addresses # <<>>) => ret = next.addresses[1]
                   /\ (~next.opret /\ next.addresses = <<>> /\ next.address # None) =>
                          ret = next.address
                   /\ (~next.opret /\ next.addresses = <<>> /\ next.address = None) =>
                          ret = next.script

\* the output after the first OP_RETURN carried all three sources with
\* different addresses, and a second OP_RETURN followed it
C21_Witness ==
    /\ call.fn = "get_output_after_op_return_address"
    /\ Len(call.tx_outputs) = 3
    /\ FirstOpReturn(call.tx_outputs) = 1
    /\ call.tx_outputs[3].opret
    /\ call.tx_outputs[2].addresses = <<"a1", "a3">>
    /\ call.tx_outputs[2].address = "a2"
    /\ call.tx_outputs[2].script = "a3"
    /\ ret = "a1"

\* the first OP_RETURN of a transaction off the multi-transfer path fails to
\* parse
ParseFails(t) ==
    /\ Len(extract_multi_transfer_op_returns(t)) <= 1
    /\ extract_op_return_data(t).found
    /\ SingleOp(t).kind # "ok"

\* C22: an OP_RETURN that fails to parse with INVALID_JSON is ignored: no log
\* entry, no state change; one that fails with another code gets exactly one
\* log entry with operation "invalid", no ticker, no amount, is_valid false
\* and that code, and no deploy, balance or cumulative mint changes.
C22_Step ==
    (Called /\ ParseFails(tx')) =>
        /\ NoMutation
        /\ SingleOp(tx').kind = "INVALID_JSON" =>
               /\ Appended = <<>>
               /\ result' = EmptyResult
        /\ (SingleOp(tx').kind # "INVALID_JSON" /\ NoException(result')) =>
               /\ OneFailedEntry(SingleOp(tx').kind)
               /\ Appended[1].operation = "invalid"
               /\ Appended[1].ticker = None
               /\ Appended[1].amount = Absent

C22_ParseFailure == [][C22_Step]_vars

\* a block whose log holds an INVALID_AMOUNT entry after a deploy, followed by
\* an ignored INVALID_JSON output
C22_Witness ==
    /\ ParseFails(tx)
    /\ SingleOp(tx).kind = "INVALID_JSON"
    /\ Len(session_ops) = 2
    /\ session_ops[2].operation = "invalid"
    /\ session_ops[2].error_code = "INVALID_AMOUNT"
    /\ session_ops[1].is_valid

\* a multi-transfer that fails the structural rules, in a block whose
\* timestamp can be converted
StructureFails(t) ==
    /\ IsMulti(t)
    /\ t.block_timestamp > 0
    /\ ~validate_multi_transfer_structure(t, extract_multi_transfer_op_returns(t)).is_valid

\* C23: when the structural validation of a multi-transfer fails, one entry
\* is appended per OP_RETURN of the transaction, each invalid with the
\* structural error, and no balance changes.
C23_Step ==
    (Called /\ StructureFails(tx')) =>
        LET code == validate_multi_transfer_structure(tx', extract_multi_transfer_op_returns(tx')).error_code
        IN /\ Len(Appended) = Cardinality(OpReturnIndexes(tx'.vout))
           /\ \A i \in 1..Len(Appended) :
                  /\ ~Appended[i].is_valid
                  /\ Appended[i].error_code = code
           /\ UNCHANGED <<intermediate_balances, session_balances>>

C23_StructuralFailureLogged == [][C23_Step]_vars

\* a multi-transfer that passes the structural rules, the meta rules and the
\* total-balance pre-check, in a block whose timestamp can be converted
PassesPreChecks(t) ==
    /\ WellFormedMulti(t)
    /\ LET ops == extract_multi_transfer_op_returns(t)
           tick == ops[1].hex_data.tick
       IN /\ \A k \in 1..Len(ops) : Upper(ops[k].hex_data.tick) = Upper(tick)
          /\ StoreDeploy(tick) # Absent
          /\ Balance(get_first_input_address(t), tick) >= StepTotal(t)

\* C24: a multi-transfer that passes the structural, meta and total-balance
\* checks appends exactly one entry per transfer step, in OP_RETURN order,
\* with is_multi_transfer = true, multi_transfer_step the step's position in
\* the loop (from 0) and vout_index the index of the step's OP_RETURN, and all
\* the entries carry the same is_valid and the same error code.
C24_Step ==
    (Called /\ PassesPreChecks(tx')) =>
        LET ops == extract_multi_transfer_op_returns(tx')
        IN /\ Len(Appended) = Len(ops)
           /\ \A i \in 1..Len(Appended) :
                  /\ Appended[i].is_multi_transfer
                  /\ Appended[i].multi_transfer_step = Some(i - 1)
                  /\ Appended[i].vout_index = ops[i].vout_index
                  /\ Appended[i].operation = "transfer"
                  /\ Appended[i].amount = Some(ops[i].hex_data.amt)
                  /\ Appended[i].is_valid = Appended[1].is_valid
                  /\ Appended[i].error_code = Appended[1].error_code

C24_OneEntryPerStep == [][C24_Step]_vars

\* the two steps of a multi-transfer were logged valid, at vout indexes 0
\* and 2
C24_Witness ==
    /\ IsMulti(tx)
    /\ Len(session_ops) = 2
    /\ session_ops[1].is_multi_transfer /\ session_ops[2].is_multi_transfer
    /\ session_ops[1].is_valid /\ session_ops[2].is_valid
    /\ session_ops[1].vout_index = 0 /\ session_ops[2].vout_index = 2
    /\ session_ops[2].multi_transfer_step = Some(1)

\* C25: writes made while a block is processed go into the overlay only and
\* reads fall through the overlay, then the Store: a call of
\* process_transaction (deploy, mint, transfer or multi-transfer) changes no
\* deploy and no balance of the Store, and what it refuses for a ticker that
\* is not deployed or for a balance that is too small, it refuses on the
\* overlay-first view of the deploy and of the balance.
C25_ReadThrough ==
    \A i \in DOMAIN Appended :
        /\ Appended[i].error_code = "TICKER_NOT_DEPLOYED" =>
               DeployOf(Appended[i].ticker) = Absent
        /\ (IsSingle(tx', "transfer") /\ Appended[i].error_code = "INSUFFICIENT_BALANCE") =>
               Balance(Sender(tx'), Appended[i].ticker) < Appended[i].amount[1]
        /\ Appended[i].error_code = "MULTI_TRANSFER_INSUFFICIENT_TOTAL_BALANCE" =>
               \/ DeployOf(Appended[i].ticker) = Absent
               \/ Balance(get_first_input_address(tx'), Appended[i].ticker) < StepTotal(tx')

C25_Step ==
    Called =>
        /\ UNCHANGED <<db_balances, db_deploys>>
        /\ \A a \in Addrs, t \in Tickers :
               /\ get_balance(a, t, Absent)' = get_balance(a, t, Absent)
               /\ get_deploy_record(t, Absent)' = get_deploy_record(t, Absent)
        /\ C25_ReadThrough

C25_OverlayWritesAndReads == [][C25_Step]_vars

StepOf(e) == IF e.multi_transfer_step = Absent THEN -1 ELSE e.multi_transfer_step[1]

\* (block_height, tx_index, vout_index, multi_transfer_step) of e is at most
\* that of f, lexicographically
LogOrderLeq(e, f) ==
    \/ e.block_height < f.block_height
    \/ /\ e.block_height = f.block_height
       /\ \/ e.tx_index < f.tx_index
          \/ /\ e.tx_index = f.tx_index
             /\ \/ e.vout_index < f.vout_index
                \/ /\ e.vout_index = f.vout_index
                   /\ StepOf(e) <= StepOf(f)

\* C26: the entries of the operation log are in nondecreasing
\* (block_height, tx_index, vout_index, multi_transfer_step) order; the
\* entries of one multi-transfer are in ascending vout_index and step order.
C26_LogOrder ==
    /\ \A i, j \in 1..Len(AllOps) :
           i < j => LogOrderLeq(AllOps[i], AllOps[j])
    /\ \A i, j \in 1..Len(AllOps) :
           (/\ i < j
            /\ AllOps[i].block_height = AllOps[j].block_height
            /\ AllOps[i].tx_index = AllOps[j].tx_index) =>
               /\ AllOps[i].vout_index < AllOps[j].vout_index
               /\ StepOf(AllOps[i]) < StepOf(AllOps[j])

\* a log over two blocks that ends with the two step entries of a
\* multi-transfer, after two entries of the first block
C26_Witness ==
    /\ Len(db_ops) = 2
    /\ Len(session_ops) = 2
    /\ session_ops[1].tx_index = session_ops[2].tx_index
    /\ session_ops[1].multi_transfer_step = Some(0)
    /\ session_ops[2].multi_transfer_step = Some(1)
    /\ db_ops[1].tx_index < db_ops[2].tx_index

\* C27: a Deploy appears only in a call on a valid deploy operation, with the
\* fields of that operation, and once a ticker has a Deploy, in the overlay
\* or in the Store, no call and no commit changes or replaces it.
C27_Step ==
    /\ \A t \in Tickers :
           DeployOf(t) # Absent => DeployOf(t)' = DeployOf(t)
    /\ AllDeployRows \subseteq AllDeployRows'
    /\ AllDeployRows' # AllDeployRows =>
           /\ Called
           /\ IsSingle(tx', "deploy")
           /\ result'.is_valid
           /\ AllDeployRows' \ AllDeployRows =
                  {[ticker |-> Upper(SingleOp(tx').tick),
                    max_supply |-> SingleOp(tx').m,
                    limit_per_op |-> SingleOp(tx').l,
                    deploy_txid |-> nTx',
                    deploy_height |-> block_height,
                    deployer_address |-> get_first_input_address(tx')]}

C27_DeployImmutable == [][C27_Step]_vars

\* a deploy with another max_supply and limit was refused in the block after
\* the ticker's deploy, which the Store holds unchanged
C27_Witness ==
    /\ IsSingle(tx, "deploy")
    /\ ~result.is_valid
    /\ block_height = StartHeight + 1
    /\ StoreDeploy(SingleOp(tx).tick) # Absent
    /\ StoreDeploy(SingleOp(tx).tick)[1].max_supply # SingleOp(tx).m
    /\ StoreDeploy(SingleOp(tx).tick)[1].limit_per_op # SingleOp(tx).l
    /\ StoreDeploy(SingleOp(tx).tick)[1].deploy_height = StartHeight

\* C28: ticker identity is the uppercase form on every path, single
\* operations and multi-transfer steps alike: every key of the overlay
\* dictionaries carries the ticker in uppercase, so that operations whose
\* tickers differ in letter case only act on the same Deploy, cumulative mint
\* and balances.
C28_UppercaseIdentity ==
    /\ \A k \in DOMAIN intermediate_balances : k[2] = Upper(k[2])
    /\ \A k \in DOMAIN intermediate_total_minted : k = Upper(k)
    /\ \A k \in DOMAIN intermediate_deploys :
           k = Upper(k) /\ intermediate_deploys[k].ticker = k

\* the outputs hold a non-OP_RETURN output
HasStandardOutput(tx_outputs) == \E i \in 1..Len(tx_outputs) : ~tx_outputs[i].opret

\* the output right after the first OP_RETURN is a standard output that
\* yields an address
RecipientResolves(tx_outputs) ==
    LET i == FirstOpReturn(tx_outputs)
    IN /\ i > 0
       /\ i + 1 <= Len(tx_outputs)
       /\ ~tx_outputs[i + 1].opret
       /\ \/ tx_outputs[i + 1].addresses # <<>>
          \/ tx_outputs[i + 1].address # None
          \/ tx_outputs[i + 1].script # None

\* C29: the output validation passes for every deploy, one with an OP_RETURN
\* output only included; a mint or a transfer fails with NO_STANDARD_OUTPUT
\* unless the transaction has a non-OP_RETURN output (validate_output_addresses)
\* and the output right after the OP_RETURN resolves to an address
\* (validate_complete_operation).
C29_OutputValidation ==
    /\ call.fn = "validate_output_addresses" =>
           /\ call.operation_type = "deploy" => ret = Valid
           /\ call.operation_type # "deploy" =>
                  ret = (IF HasStandardOutput(call.tx_outputs) THEN Valid
                         ELSE VR(FALSE, "NO_STANDARD_OUTPUT"))
    /\ call.fn = "validate_complete_operation" =>
           LET outputs_pass == HasStandardOutput(call.tx_outputs) /\ RecipientResolves(call.tx_outputs)
           IN /\ call.operation.op = "deploy" => ret = Valid
              /\ (call.operation.op # "deploy" /\ ~outputs_pass) =>
                     ret = VR(FALSE, "NO_STANDARD_OUTPUT")
              /\ (call.operation.op # "deploy" /\ outputs_pass /\ call.sender_address # None) =>
                     ret.error_code # "NO_STANDARD_OUTPUT"

\* a mint was refused for the output after its OP_RETURN, a second OP_RETURN,
\* although the transaction has a standard output with an address
C29_Witness ==
    /\ call.fn = "validate_complete_operation"
    /\ call.operation.op = "mint"
    /\ HasStandardOutput(call.tx_outputs)
    /\ FirstOpReturn(call.tx_outputs) = 1
    /\ call.tx_outputs[2].opret
    /\ call.tx_outputs[3].addresses # <<>>
    /\ ret = VR(FALSE, "NO_STANDARD_OUTPUT")

\* a deploy whose only output is its OP_RETURN passed the output validation
C29_DeployWitness ==
    /\ call.fn = "validate_output_addresses"
    /\ call.operation_type = "deploy"
    /\ ~HasStandardOutput(call.tx_outputs)
    /\ ret = Valid

\* C30: a transaction whose processing ends in UNHANDLED_EXCEPTION is fully
\* invalid: the overlay deploys, balances and cumulative mint totals after the
\* call are those before the call, wherever the exception was raised.
C30_Step ==
    (Called /\ result'.error_code = "UNHANDLED_EXCEPTION") =>
        UNCHANGED <<intermediate_deploys, intermediate_balances, intermediate_total_minted>>

C30_UnhandledIsFullyInvalid == [][C30_Step]_vars

\* the rules a mint violates, by their error code
MintViolations(c) ==
    LET amt == c.operation.amt
        deployed == Has(c.intermediate_deploys, "ORDI")
        deploy == c.intermediate_deploys["ORDI"]
        minted == IF Has(c.intermediate_total_minted, "ORDI")
                  THEN c.intermediate_total_minted["ORDI"] ELSE 0
    IN (IF ~RecipientResolves(c.tx_outputs) THEN {"NO_STANDARD_OUTPUT"} ELSE {})
       \cup (IF ~deployed THEN {"TICKER_NOT_DEPLOYED"} ELSE {})
       \cup (IF amt = 0 THEN {"INVALID_AMOUNT"} ELSE {})
       \cup (IF deployed /\ deploy.limit_per_op # Absent /\ amt > deploy.limit_per_op[1]
             THEN {"EXCEEDS_MINT_LIMIT"} ELSE {})
       \cup (IF deployed /\ minted + amt > deploy.max_supply
             THEN {"EXCEEDS_MAX_SUPPLY"} ELSE {})

MintPrecedence ==
    <<"NO_STANDARD_OUTPUT", "TICKER_NOT_DEPLOYED", "INVALID_AMOUNT", "EXCEEDS_MINT_LIMIT", "EXCEEDS_MAX_SUPPLY">>

\* C31: a mint through validate_complete_operation is refused with the first
\* violated rule in the order NO_STANDARD_OUTPUT (no recipient after the
\* OP_RETURN), TICKER_NOT_DEPLOYED, INVALID_AMOUNT, EXCEEDS_MINT_LIMIT,
\* EXCEEDS_MAX_SUPPLY, and accepted when no rule is violated.
C31_MintErrorPrecedence ==
    (call.fn = "validate_complete_operation" /\ call.operation.op = "mint") =>
        LET violated == MintViolations(call)
        IN IF violated = {} THEN ret = Valid
           ELSE LET first == CHOOSE i \in 1..5 :
                                 /\ MintPrecedence[i] \in violated
                                 /\ \A j \in 1..(i - 1) : MintPrecedence[j] \notin violated
                IN ret = VR(FALSE, MintPrecedence[first])

\* a mint above limit_per_op and above what is left of max_supply, with a
\* recipient, was refused with EXCEEDS_MINT_LIMIT
C31_Witness ==
    /\ call.fn = "validate_complete_operation"
    /\ call.operation.op = "mint"
    /\ MintViolations(call) = {"EXCEEDS_MINT_LIMIT", "EXCEEDS_MAX_SUPPLY"}
    /\ ret = VR(FALSE, "EXCEEDS_MINT_LIMIT")

\* a mint without recipient, of a ticker that is not deployed, with an
\* invalid amount, was refused with NO_STANDARD_OUTPUT
C31_AllViolatedWitness ==
    /\ call.fn = "validate_complete_operation"
    /\ call.operation.op = "mint"
    /\ MintViolations(call) = {"NO_STANDARD_OUTPUT", "TICKER_NOT_DEPLOYED", "INVALID_AMOUNT"}
    /\ ret = VR(FALSE, "NO_STANDARD_OUTPUT")

\* C32: every balance a call of process_transaction writes into the overlay
\* is staged with the same value in the session's Balance row of that
\* (address, ticker), on the mint, transfer, marketplace and multi-transfer
\* paths alike, so the overlay and the session agree after each call.
C32_Step ==
    Called =>
        \A key \in DOMAIN intermediate_balances' :
            (~Has(intermediate_balances, key)
             \/ intermediate_balances'[key] # intermediate_balances[key]) =>
                /\ Has(session_balances', key)
                /\ session_balances'[key] = intermediate_balances'[key]

C32_OverlayStagedInSession == [][C32_Step]_vars

\* C33: no balance is recorded for an unresolved address: no key of the
\* overlay balances has a null address, whatever process_transaction calls
\* were made, a multi-transfer step without recipient address or with an
\* unresolved sender included.
C33_NoNullAddressBalance ==
    \A key \in DOMAIN intermediate_balances : key[1] # None

\* C34: the ProcessingResult agrees with the log: whenever a call of
\* process_transaction appended log entries, the result has operation_found
\* true and its is_valid and error_code are those of every appended entry, a
\* parse failure other than INVALID_JSON included.
C34_Step ==
    (Called /\ Appended # <<>>) =>
        /\ result'.operation_found
        /\ \A i \in DOMAIN Appended :
               /\ result'.is_valid = Appended[i].is_valid
               /\ result'.error_code = Appended[i].error_code

C34_ResultAgreesWithLog == [][C34_Step]_vars

\* C35: in every log entry is_marketplace implies operation "transfer",
\* is_valid and not is_multi_transfer: no entry of an invalid operation, of
\* a deploy or mint, or of a multi-transfer step is flagged is_marketplace.
C35_MarketplaceFlag ==
    \A i \in DOMAIN AllOps :
        AllOps[i].is_marketplace =>
            /\ AllOps[i].operation = "transfer"
            /\ AllOps[i].is_valid
            /\ ~AllOps[i].is_multi_transfer

\* the log holds a valid marketplace transfer entry next to entries of a
\* deploy and a mint that are not flagged
C35_Witness ==
    /\ \E i \in DOMAIN AllOps :
           /\ AllOps[i].is_marketplace
           /\ AllOps[i].operation = "transfer"
           /\ AllOps[i].is_valid
    /\ \E i \in DOMAIN AllOps : AllOps[i].operation = "mint" /\ ~AllOps[i].is_marketplace
    /\ \E i \in DOMAIN AllOps : AllOps[i].operation = "deploy" /\ ~AllOps[i].is_marketplace

\* the log holds the step entries of a multi-transfer whose inputs are signed
\* SINGLE|ANYONECANPAY, none of them flagged is_marketplace
C35_MultiWitness ==
    /\ IsMulti(tx)
    /\ \E k \in DOMAIN tx.vin : tx.vin[k].sig
    /\ Len(session_ops) >= 2
    /\ session_ops[Len(session_ops)].is_multi_transfer
    /\ ~session_ops[Len(session_ops)].is_marketplace

\* C36: the marketplace sighash rule covers every transfer that moves
\* balances: a transaction with an input signed SINGLE|ANYONECANPAY that
\* fails the marketplace template of its height changes no balance, whether
\* it carries one transfer OP_RETURN or several.
C36_Step ==
    (Called /\ SigInputs(tx'.vin) # {} /\ ~TemplatePasses(tx')) =>
        UNCHANGED <<intermediate_balances, session_balances>>

C36_SighashRuleOnEveryTransfer == [][C36_Step]_vars

====
